---- MODULE Spec2Model ----
(***************************************************************************)
(* Poetry Cam backend: the allowlist cache, the authenticate middleware,   *)
(* the dual-auth /generate-poem handler, the poem handlers (navigation,   *)
(* listing, delete, favorite toggle), the settings handlers and the admin  *)
(* handlers, as a state machine.                                           *)
(*                                                                         *)
(* Every request lives in a slot of `req`.  A handler is cut at its awaits:*)
(* one action runs the code from one await to the next, so snapshot        *)
(* deliveries interleave with a request exactly where the event loop lets  *)
(* them.  Fields named in the source keep their names; the remaining       *)
(* fields of a request are history (what was called, read or sent).        *)
(***************************************************************************)
EXTENDS Naturals, Integers, Sequences, FiniteSets, TLC

VARIABLES
    allowedUserIds,   \* middleware/auth.js: the in-memory allowlist cache
    allowlist,        \* Firestore collection 'allowlist'
    poems,            \* Firestore collection 'poems'
    req,              \* the requests in flight, one record per slot
    lastSnapshot,     \* history: <<>> or <<s>>, s the snapshot delivered last
    errors,           \* history: subscription error events so far
    everNonEmpty      \* history: the cache has held a non-empty set

vars == <<allowedUserIds, allowlist, poems, req, lastSnapshot, errors, everNonEmpty>>

----------------------------------------------------------------------------
(* Bounds *)

MaxPoems == 2

MaxErrors == 2

\* the largest poems collection the navigation and delete handlers start on
MaxItems == 3

\* the largest index (and page) a request asks for
MaxIndex == 3

\* the largest collection the listing is run on
MaxListed == 60

\* the largest poems collection concurrent requests start on
MaxRaceItems == 1

\* the most allowlist entries add-user requests are let in for
MaxEntries == 3

----------------------------------------------------------------------------
(* Values *)

Undefined == "undefined"

Reqs == {"r1"}

Subjects == {"u1", "u2"}

Emails == {"a@x", Undefined}

ApiKeys == {"k1", Undefined}

DocIds == {"d1", "d2"}

\* data of one allowlist document: uid may be missing, the key may be missing
DocData == [uid : Subjects \cup {Undefined}, geminiApiKey : ApiKeys]

AllowlistDocs == [id : DocIds, uid : Subjects \cup {Undefined}, geminiApiKey : ApiKeys]

\* the collections the datastore can hold: at most one document per id
AllowlistStates ==
    { c \in SUBSET AllowlistDocs :
        \A d1 \in c : \A d2 \in c : d1.id = d2.id => d1 = d2 }

\* a JS value is truthy unless it is undefined or the empty string
Truthy(v) == v # Undefined /\ v # ""

publicPaths == {"/", "/favicon.ico", "/generate-poem", "/public/getPoem", "/public/getWebDisplayPoem"}

ProtectedPaths == {"/getPoem", "/admin/users"}

Paths == publicPaths \cup ProtectedPaths

\* a plausible slip: the dual-auth route is left out of the bypass
IsPublic_NoGenerate(path) == path \in publicPaths \ {"/generate-poem"}

\* publicPaths.includes(req.path)
IsPublic(path) == path \in publicPaths

\* An Authorization header is a sequence of pieces; the piece "Bearer " is
\* the literal the code tests and splits on.  <<>> is an absent header.
NoHeader == <<>>

Headers ==
    { NoHeader,
      <<"Basic ", "t1">>,
      <<"Bearer ", "t1">>,
      <<"Bearer ">>,
      <<"Bearer ", "Bearer ", "t1">> }

\* the userid query parameter: absent, empty, or a subject identifier
QueryUserids == {Undefined, ""} \cup Subjects

\* a plausible slip: any header that is present counts as a bearer header
StartsWithBearer_AnyHeader(h) == Len(h) > 0

\* authHeader && authHeader.startsWith('Bearer ')
StartsWithBearer(h) == Len(h) > 0 /\ h[1] = "Bearer "

\* authHeader.split('Bearer '): the segments between the separators, each a
\* sequence of pieces
RECURSIVE SplitFrom(_, _, _)
SplitFrom(h, i, cur) ==
    IF i > Len(h) THEN <<cur>>
    ELSE IF h[i] = "Bearer " THEN <<cur>> \o SplitFrom(h, i + 1, <<>>)
    ELSE SplitFrom(h, i + 1, Append(cur, h[i]))

SplitBearer(h) == SplitFrom(h, 1, <<>>)

\* authHeader.split('Bearer ')[1]  (JS index 1 is the second segment); a
\* missing segment is undefined in JS, which the verifier rejects exactly as
\* it rejects the empty string, so both are the empty token here
IdTokenOf(h) == IF Len(SplitBearer(h)) >= 2 THEN SplitBearer(h)[2] ELSE <<>>

\* What getAuth().verifyIdToken can answer.  The provider is external: a
\* token verifies to some subject, or fails with or without an error code.
NoDecoded == [verdict |-> "none", uid |-> Undefined, email |-> Undefined, code |-> Undefined]

VerifySuccesses ==
    { [verdict |-> "ok", uid |-> u, email |-> e, code |-> Undefined] : u \in Subjects, e \in Emails }

ErrorCodes == {"auth/id-token-expired", "auth/argument-error", Undefined}

VerifyFailures ==
    { [verdict |-> "fail", uid |-> Undefined, email |-> Undefined, code |-> c] : c \in ErrorCodes }

\* the empty token is rejected by the verifier as an argument error
verifyIdToken(idToken) ==
    IF idToken = <<>>
    THEN { [verdict |-> "fail", uid |-> Undefined, email |-> Undefined, code |-> "auth/argument-error"] }
    ELSE VerifySuccesses \cup VerifyFailures

----------------------------------------------------------------------------
(* Query parameters and the poems collection *)

\* A numeric query parameter arrives as a string, here a sequence of
\* characters; <<>> is the parameter not sent (parseInt(undefined) and
\* parseInt('') are both NaN).
Digits == <<"0", "1", "2", "3", "4", "5", "6", "7", "8", "9">>

IsDigit(c) == \E i \in 1..10 : Digits[i] = c

DigitVal(c) == (CHOOSE i \in 1..10 : Digits[i] = c) - 1

NumberInputs ==
    { <<>>, <<"x">>, <<"-", "1">>, <<"1", "x">>, <<"2", "x">>, <<" ", "2">> }
      \cup { <<Digits[i + 1]>> : i \in 0..MaxIndex }

NaN == [nan |-> TRUE, val |-> 0]

\* the value of the leading digits of s from position i on, acc so far
RECURSIVE ParseDigits(_, _, _)
ParseDigits(s, i, acc) ==
    IF i > Len(s) \/ ~IsDigit(s[i]) THEN acc
    ELSE ParseDigits(s, i + 1, 10 * acc + DigitVal(s[i]))

RECURSIVE SkipSpaces(_, _)
SkipSpaces(s, i) == IF i <= Len(s) /\ s[i] = " " THEN SkipSpaces(s, i + 1) ELSE i

\* parseInt(s): leading blanks are skipped, a sign is read, then the digits
\* up to the first other character; NaN when there is no digit
ParseInt(s) ==
    LET i    == SkipSpaces(s, 1)
        neg  == i <= Len(s) /\ s[i] = "-"
        j    == IF i <= Len(s) /\ s[i] \in {"-", "+"} THEN i + 1 ELSE i
    IN  IF j > Len(s) \/ ~IsDigit(s[j]) THEN NaN
        ELSE [nan |-> FALSE,
              val |-> IF neg THEN 0 - ParseDigits(s, j, 0) ELSE ParseDigits(s, j, 0)]

BoolStrings == {"true", "false", Undefined}

\* a poem document with its id
Poem(i, u, f, t) == [id |-> i, userId |-> u, isFavorite |-> f, timestamp |-> t]

\* orderBy('timestamp', 'desc'), or orderBy('isFavorite', 'desc') then
\* orderBy('timestamp', 'desc'): a comes before b
Before(a, b, sortByDate) ==
    IF sortByDate
    THEN a.timestamp > b.timestamp
    ELSE \/ a.isFavorite /\ ~b.isFavorite
         \/ a.isFavorite = b.isFavorite /\ a.timestamp > b.timestamp

\* the documents of S in the order of the query: the k-th is the one that
\* k - 1 others come before (timestamps are distinct)
SortDocs(S, sortByDate) ==
    [k \in 1..Cardinality(S) |->
        CHOOSE x \in S : Cardinality({ y \in S : Before(y, x, sortByDate) }) = k - 1]

\* the documents of the collection
DocsOf(coll) == { coll[i] : i \in DOMAIN coll }

\* where('userId', '==', userId) [.where('isFavorite', '==', true)]
\* .orderBy(...).offset(offset).limit(limitVal).get()
RunQuery(coll, userId, favoritesOnly, sortByDate, offset, limitVal) ==
    LET hits == { x \in DocsOf(coll) :
                    x.userId = userId /\ (favoritesOnly => x.isFavorite) }
        rows == SortDocs(hits, sortByDate)
        last == IF offset + limitVal < Len(rows) THEN offset + limitVal ELSE Len(rows)
    IN  SubSeq(rows, offset + 1, last)

\* the range query a handler issues
NoPlan == [index |-> 0, offset |-> 0, limitVal |-> 0, favoritesOnly |-> FALSE, sortByDate |-> FALSE]

----------------------------------------------------------------------------
(* Requests *)

IdleReq ==
    [ pc            |-> "idle",
      path          |-> "/",
      authorization |-> NoHeader,
      userid        |-> Undefined,       \* req.query.userid
      image         |-> FALSE,           \* req.file or a non-empty raw body
      user          |-> <<>>,            \* req.user: <<>> unset, <<[uid, email]>> set
      userId        |-> Undefined,       \* generatePoem's local userId
      apiKey        |-> Undefined,       \* generatePoem's local apiKey
      decoded       |-> NoDecoded,       \* what verifyIdToken answered
      seen          |-> <<>>,            \* <<S>>: the cache held S when the code read it
      onEntry       |-> <<>>,            \* <<S>>: the cache held S when the verifier was called
      tier          |-> "none",          \* which path resolved the subject
      status        |-> 0,               \* status of the response sent, 0: none
      error         |-> Undefined,       \* body.error
      code          |-> Undefined,       \* body.code
      responder     |-> "none",          \* who sent the response
      responses     |-> 0,
      nextCalls     |-> 0,
      headerReads   |-> 0,
      verifyCalls   |-> 0,
      cacheReads    |-> 0,
      handled       |-> FALSE,           \* a route handler ran
      lookups       |-> 0,               \* allowlist document queries
      genCalls      |-> 0,               \* generateContent calls
      poemWrites    |-> 0,               \* poems.add calls
      index         |-> <<>>,            \* req.query.index, as sent
      page          |-> <<>>,            \* req.query.page, as sent
      favoritesOnly |-> Undefined,       \* req.query.favoritesOnly
      sortByDate    |-> Undefined,       \* req.query.sortByDate
      id            |-> 0,               \* req.query.id, 0: not sent
      plan          |-> NoPlan,          \* the range query the handler issued
      queries       |-> 0,               \* range queries issued
      reads         |-> 0,               \* poem documents fetched by id
      deletes       |-> 0,               \* poemRef.delete() calls
      currentPoem   |-> <<>>,            \* body.currentPoem: <<>> null, <<item>>
      nextPoem      |-> <<>>,            \* body.nextPoem
      previousPoem  |-> <<>>,            \* body.previousPoem
      docs          |-> <<>>,            \* the body of the listing
      bodyStatus    |-> Undefined,       \* req.body.status
      poemData      |-> <<>>,            \* toggleFavorite's poemData: <<>> unset, <<doc>>
      newStatus     |-> <<>>,            \* toggleFavorite's newStatus: <<>> unset, <<b>>
      updates       |-> 0,               \* poemRef.update() calls
      isFavorite    |-> <<>>,            \* body.isFavorite: <<>> absent, <<b>>
      settings      |-> [kind |-> "missing"],  \* req.body.settings
      allowedUids   |-> <<>>,            \* getUsers' allowedUids: <<>> unset, <<set>>
      newUid        |-> Undefined,       \* req.body.newUid
      poemId        |-> Undefined,       \* req.body.poemId
      target        |-> <<>>,            \* snapshot.docs[0]: <<>> unset, <<id>>
      settingsUpdates |-> <<>>,          \* updateSettings' updates: <<>> unset, <<object>>
      writes        |-> 0,               \* allowlist writes issued (update, add)
      body          |-> <<>>,            \* the object sent as the body: <<>> none, <<object>>
      hasGeminiApiKey |-> <<>> ]         \* body.hasGeminiApiKey: <<>> absent, <<b>>

\* res.status(s).json({error: e, code: c}) sent by `who`
Respond(r, who, s, e, c) ==
    [r EXCEPT !.status = s, !.error = e, !.code = c, !.responder = who,
              !.responses = @ + 1, !.pc = "done"]

TypeOK ==
    /\ allowedUserIds \subseteq Subjects \cup {""}
    /\ allowlist \in AllowlistStates
    /\ \A i \in DOMAIN poems : poems[i].isFavorite \in BOOLEAN
    /\ DOMAIN req = Reqs

----------------------------------------------------------------------------
(* The allowlist cache *)

\* the set the onSnapshot callback builds from a snapshot
SnapshotSet(snapshot) == { d.uid : d \in { x \in snapshot : Truthy(x.uid) } }

\* a plausible slip: the uids are added to the set in place instead of
\* building a new set and swapping it in
OnSnapshot_InPlace ==
    /\ allowedUserIds' = allowedUserIds \cup SnapshotSet(allowlist)
    /\ lastSnapshot' = <<allowlist>>
    /\ everNonEmpty' = (everNonEmpty \/ allowedUserIds' # {})
    /\ UNCHANGED <<allowlist, poems, req, errors>>

\* a plausible slip: a snapshot without a uid is ignored, the cache keeps
\* the set it had
OnSnapshot_IgnoreEmpty ==
    /\ allowedUserIds' = IF SnapshotSet(allowlist) = {} THEN allowedUserIds
                                                       ELSE SnapshotSet(allowlist)
    /\ lastSnapshot' = <<allowlist>>
    /\ everNonEmpty' = (everNonEmpty \/ allowedUserIds' # {})
    /\ UNCHANGED <<allowlist, poems, req, errors>>

\* a plausible slip: the collection is read once, later changes are not
\* delivered
OnSnapshot_FirstOnly ==
    /\ lastSnapshot = <<>>
    /\ allowedUserIds' = SnapshotSet(allowlist)
    /\ lastSnapshot' = <<allowlist>>
    /\ everNonEmpty' = (everNonEmpty \/ allowedUserIds' # {})
    /\ UNCHANGED <<allowlist, poems, req, errors>>

\* db.collection('allowlist').onSnapshot(snapshot => ...): the callback has
\* no await, it runs to its end before any other code
OnSnapshot ==
    /\ allowedUserIds' = SnapshotSet(allowlist)
    /\ lastSnapshot' = <<allowlist>>
    /\ everNonEmpty' = (everNonEmpty \/ allowedUserIds' # {})
    /\ UNCHANGED <<allowlist, poems, req, errors>>

\* a plausible slip: an error clears the cache
OnSnapshotError_Clear ==
    /\ errors < MaxErrors
    /\ errors' = errors + 1
    /\ allowedUserIds' = {}
    /\ UNCHANGED <<allowlist, poems, req, lastSnapshot, everNonEmpty>>

\* the error callback of onSnapshot: the error is logged
OnSnapshotError ==
    /\ errors < MaxErrors
    /\ errors' = errors + 1
    /\ UNCHANGED <<allowedUserIds, allowlist, poems, req, lastSnapshot, everNonEmpty>>

\* The collection the subscription listens to is written from outside the
\* cache: a document is added (as add-user does, without a key), its uid is
\* rewritten, or it is removed.
DatastoreWrite ==
    /\ \E id \in DocIds :
         LET rest == { d \in allowlist : d.id # id } IN
         \/ allowlist' = rest
         \/ \E u \in Subjects \cup {Undefined} :
              allowlist' = rest \cup
                { [id |-> id, uid |-> u,
                   geminiApiKey |-> IF \E d \in allowlist : d.id = id
                                    THEN (CHOOSE d \in allowlist : d.id = id).geminiApiKey
                                    ELSE Undefined] }
    /\ allowlist' # allowlist
    /\ UNCHANGED <<allowedUserIds, poems, req, lastSnapshot, errors, everNonEmpty>>

\* a plausible slip: the negation of has() is dropped
NotOnAllowlist_NoNegation(set, uid) == Cardinality(set) > 0 /\ uid \in set

\* a plausible slip: the size test is dropped, an empty set denies everyone
NotOnAllowlist_NoSizeTest(set, uid) == uid \notin set

\* allowedUserIds.size > 0 && !allowedUserIds.has(uid)
NotOnAllowlist(set, uid) == Cardinality(set) > 0 /\ uid \notin set

----------------------------------------------------------------------------
(* Request arrival *)

\* A request arrives with its path, its headers, its query and its body.
\* userid and the image are inputs of /generate-poem only.
Arrive(r) ==
    /\ req[r].pc = "idle"
    /\ \E p \in Paths, h \in Headers, q \in QueryUserids, img \in BOOLEAN :
         /\ p # "/generate-poem" => (q = Undefined /\ img = FALSE)
         /\ (p = "/generate-poem" /\ img) => Len(poems) < MaxPoems
         /\ req' = [req EXCEPT ![r] =
                [IdleReq EXCEPT !.pc = "auth", !.path = p, !.authorization = h,
                                !.userid = q, !.image = img]]
    /\ UNCHANGED <<allowedUserIds, allowlist, poems, lastSnapshot, errors, everNonEmpty>>

\* the response has been sent and the handler has returned: the slot is free
Retire(r) ==
    /\ req[r].pc = "done"
    /\ req' = [req EXCEPT ![r] = IdleReq]
    /\ UNCHANGED <<allowedUserIds, allowlist, poems, lastSnapshot, errors, everNonEmpty>>

----------------------------------------------------------------------------
(* middleware/auth.js: authenticate *)

\* authenticate up to its await: the public-path test, the header test, the
\* call of verifyIdToken
AuthenticateStart(r) ==
    /\ req[r].pc = "auth"
    /\ LET q == req[r] IN
       req' = [req EXCEPT ![r] =
         IF IsPublic(q.path)
         THEN [q EXCEPT !.nextCalls = @ + 1, !.pc = "route"]
         ELSE LET q1 == [q EXCEPT !.headerReads = @ + 1] IN
              IF ~StartsWithBearer(q.authorization)
              THEN Respond(q1, "authenticate", 401,
                           "Authentication required: Missing or invalid token", Undefined)
              ELSE [q1 EXCEPT !.verifyCalls = @ + 1, !.onEntry = <<allowedUserIds>>,
                              !.pc = "auth_verify"]]
    /\ UNCHANGED <<allowedUserIds, allowlist, poems, lastSnapshot, errors, everNonEmpty>>

\* a plausible slip: the expired case is not told apart
AuthenticateCatch_Generic(q, errCode) ==
    Respond(q, "authenticate", 401, "Invalid authentication token", Undefined)

\* the catch block of authenticate
AuthenticateCatch(q, errCode) ==
    IF errCode = "auth/id-token-expired"
    THEN Respond(q, "authenticate", 401, "Token expired", "TOKEN_EXPIRED")
    ELSE Respond(q, "authenticate", 401, "Invalid authentication token", Undefined)

\* a plausible slip: req.user is attached without the email
AuthenticateAllow_NoEmail(q, d, cache) ==
    LET q1 == [q EXCEPT !.decoded = d,
                        !.user = <<[uid |-> d.uid, email |-> Undefined]>>,
                        !.cacheReads = @ + 1,
                        !.seen = <<cache>>] IN
    IF NotOnAllowlist(cache, q1.user[1].uid)
    THEN Respond(q1, "authenticate", 403, "Access denied: User not on allowlist", Undefined)
    ELSE [q1 EXCEPT !.tier = "token", !.nextCalls = @ + 1, !.pc = "route"]

\* a plausible slip: req.user is attached after the allowlist test, on the
\* runs that pass it
AuthenticateAllow_UserAfterGate(q, d, cache) ==
    LET q1 == [q EXCEPT !.decoded = d,
                        !.cacheReads = @ + 1,
                        !.seen = <<cache>>] IN
    IF NotOnAllowlist(cache, d.uid)
    THEN Respond(q1, "authenticate", 403, "Access denied: User not on allowlist", Undefined)
    ELSE [q1 EXCEPT !.user = <<[uid |-> d.uid, email |-> d.email]>>,
                    !.tier = "token", !.nextCalls = @ + 1, !.pc = "route"]

\* authenticate after its await: req.user, the allowlist test, next()
AuthenticateAllow(q, d, cache) ==
    LET q1 == [q EXCEPT !.decoded = d,
                        !.user = <<[uid |-> d.uid, email |-> d.email]>>,
                        !.cacheReads = @ + 1,
                        !.seen = <<cache>>] IN
    IF NotOnAllowlist(cache, q1.user[1].uid)
    THEN Respond(q1, "authenticate", 403, "Access denied: User not on allowlist", Undefined)
    ELSE [q1 EXCEPT !.tier = "token", !.nextCalls = @ + 1, !.pc = "route"]

\* a plausible slip: the set is read before the await and tested after it
AuthenticateResume_EarlyRead(r) ==
    /\ req[r].pc = "auth_verify"
    /\ \E d \in verifyIdToken(IdTokenOf(req[r].authorization)) :
         req' = [req EXCEPT ![r] =
           IF d.verdict = "ok"
           THEN AuthenticateAllow(req[r], d, req[r].onEntry[1])
           ELSE AuthenticateCatch([req[r] EXCEPT !.decoded = d], d.code)]
    /\ UNCHANGED <<allowedUserIds, allowlist, poems, lastSnapshot, errors, everNonEmpty>>

\* authenticate resumes when verifyIdToken has settled
AuthenticateResume(r) ==
    /\ req[r].pc = "auth_verify"
    /\ \E d \in verifyIdToken(IdTokenOf(req[r].authorization)) :
         req' = [req EXCEPT ![r] =
           IF d.verdict = "ok"
           THEN AuthenticateAllow(req[r], d, allowedUserIds)
           ELSE AuthenticateCatch([req[r] EXCEPT !.decoded = d], d.code)]
    /\ UNCHANGED <<allowedUserIds, allowlist, poems, lastSnapshot, errors, everNonEmpty>>

\* app.js: the routes mounted behind authenticate, other than
\* /generate-poem; what the poem handlers do is followed in SpecPoems and
\* SpecList
RouteHandler(r) ==
    /\ req[r].pc = "route"
    /\ req[r].path # "/generate-poem"
    /\ req' = [req EXCEPT ![r] = [@ EXCEPT !.handled = TRUE, !.pc = "done"]]
    /\ UNCHANGED <<allowedUserIds, allowlist, poems, lastSnapshot, errors, everNonEmpty>>

----------------------------------------------------------------------------
(* controllers/poemController.js: generatePoem *)

\* a plausible slip: the 401 test is dropped and the lookup runs without a
\* subject
GeneratePoemSettings_No401(q) == [q EXCEPT !.lookups = @ + 1, !.pc = "gen_lookup"]

\* if (!userId) 401; else the query of the caller's allowlist document (an
\* await)
GeneratePoemSettings(q) ==
    IF ~Truthy(q.userId)
    THEN Respond(q, "generatePoem", 401, "Authentication required: Missing token or userid", Undefined)
    ELSE [q EXCEPT !.lookups = @ + 1, !.pc = "gen_lookup"]

\* a plausible slip: the userid parameter is taken whenever it is sent,
\* also over a verified token
GeneratePoemResolve_ParamFirst(q, cache) ==
    IF Truthy(q.userid)
    THEN LET q1 == [q EXCEPT !.userId = q.userid, !.tier = "param",
                             !.cacheReads = @ + 1, !.seen = <<cache>>] IN
         IF NotOnAllowlist(cache, q1.userId)
         THEN Respond(q1, "generatePoem", 403, "Access denied: User not on allowlist", Undefined)
         ELSE GeneratePoemSettings(q1)
    ELSE GeneratePoemSettings(q)

\* the parameter path: without a verified subject the userid parameter
\* becomes the subject and is tested against the cache
GeneratePoemResolve(q, cache) ==
    IF ~Truthy(q.userId) /\ Truthy(q.userid)
    THEN LET q1 == [q EXCEPT !.userId = q.userid, !.tier = "param",
                             !.cacheReads = @ + 1, !.seen = <<cache>>] IN
         IF NotOnAllowlist(cache, q1.userId)
         THEN Respond(q1, "generatePoem", 403, "Access denied: User not on allowlist", Undefined)
         ELSE GeneratePoemSettings(q1)
    ELSE GeneratePoemSettings(q)

\* generatePoem up to its first await: the image test, the header test, the
\* call of verifyIdToken; without a bearer header it runs on to the lookup
GeneratePoemStart(r) ==
    /\ req[r].pc = "route"
    /\ req[r].path = "/generate-poem"
    /\ LET q == [req[r] EXCEPT !.handled = TRUE] IN
       req' = [req EXCEPT ![r] =
         IF ~q.image
         THEN Respond(q, "generatePoem", 400, "No image file provided", Undefined)
         ELSE LET q1 == [q EXCEPT !.headerReads = @ + 1] IN
              IF StartsWithBearer(q.authorization)
              THEN [q1 EXCEPT !.verifyCalls = @ + 1, !.pc = "gen_verify"]
              ELSE GeneratePoemResolve(q1, allowedUserIds)]
    /\ UNCHANGED <<allowedUserIds, allowlist, poems, lastSnapshot, errors, everNonEmpty>>

\* the verified token's subject becomes userId; a failure is only logged
GeneratePoemToken(q, d) ==
    IF d.verdict = "ok"
    THEN [q EXCEPT !.decoded = d, !.userId = d.uid, !.tier = "token"]
    ELSE [q EXCEPT !.decoded = d]

\* a plausible slip: a failed verification rejects at once, as authenticate
\* does
GeneratePoemAfterVerify_Reject(q, d, cache) ==
    IF d.verdict = "ok"
    THEN GeneratePoemResolve(GeneratePoemToken(q, d), cache)
    ELSE Respond([q EXCEPT !.decoded = d], "generatePoem", 401,
                 "Invalid authentication token", Undefined)

\* the try/catch around verifyIdToken, then the rest of the handler
GeneratePoemAfterVerify(q, d, cache) ==
    GeneratePoemResolve(GeneratePoemToken(q, d), cache)

\* generatePoem after the verifier answered
GeneratePoemVerified(r) ==
    /\ req[r].pc = "gen_verify"
    /\ \E d \in verifyIdToken(IdTokenOf(req[r].authorization)) :
         req' = [req EXCEPT ![r] = GeneratePoemAfterVerify(req[r], d, allowedUserIds)]
    /\ UNCHANGED <<allowedUserIds, allowlist, poems, lastSnapshot, errors, everNonEmpty>>

\* a plausible slip: a key of the server stands in when the subject's
\* document has none
LookupResults_ServerKey(coll, uid) ==
    LET hits == { d \in coll : d.uid = uid } IN
    { IF Truthy(d.geminiApiKey) THEN d.geminiApiKey ELSE "k1" : d \in hits } \cup {"k1"}

\* allowlistRef.where('uid', '==', userId).limit(1).get(): one of the
\* matching documents, none when no document matches or the query throws
LookupResults(coll, uid) ==
    LET hits == { d \in coll : d.uid = uid } IN
    (IF hits = {} THEN {Undefined} ELSE { d.geminiApiKey : d \in hits }) \cup {Undefined}

\* generatePoem after the settings lookup: the API key test, then the
\* generative call (an await)
GeneratePoemLookup(r) ==
    /\ req[r].pc = "gen_lookup"
    /\ \E k \in LookupResults(allowlist, req[r].userId) :
         req' = [req EXCEPT ![r] =
           IF ~Truthy(k)
           THEN Respond(req[r], "generatePoem", 400,
                        "Gemini API Key is missing. Please configure it in your settings.", Undefined)
           ELSE [req[r] EXCEPT !.apiKey = k, !.genCalls = @ + 1, !.pc = "gen_generate"]]
    /\ UNCHANGED <<allowedUserIds, allowlist, poems, lastSnapshot, errors, everNonEmpty>>

GenerateOutcomes == {"json", "badjson", "throw"}

\* generatePoem after the generative call: the JSON parse, the response,
\* then the poem write (an await)
GeneratePoemGenerated(r) ==
    /\ req[r].pc = "gen_generate"
    /\ \E o \in GenerateOutcomes :
         req' = [req EXCEPT ![r] =
           CASE o = "throw"   -> Respond(req[r], "generatePoem", 500, "Internal server error", Undefined)
             [] o = "badjson" -> Respond(req[r], "generatePoem", 500, "Failed to generate valid JSON", Undefined)
             [] o = "json"    -> [Respond(req[r], "generatePoem", 200, Undefined, Undefined)
                                    EXCEPT !.poemWrites = @ + 1, !.pc = "gen_save"]]
    /\ UNCHANGED <<allowedUserIds, allowlist, poems, lastSnapshot, errors, everNonEmpty>>

\* the id poems.add gives the new document: one that no stored document
\* has and no request in flight names
FreshId ==
    LET used == {0} \cup { poems[i].id : i \in DOMAIN poems }
                    \cup { req[r].id : r \in DOMAIN req }
    IN  1 + (CHOOSE m \in used : \A x \in used : x <= m)

\* a plausible slip: the owner written is the userid parameter, whichever
\* path resolved the subject
NewPoem_FromParam(q) == Poem(FreshId, q.userid, FALSE, FreshId)

\* the document poems.add writes; its id is new and its timestamp is the
\* time of the write, later than every stored one
NewPoem(q) == Poem(FreshId, q.userId, FALSE, FreshId)

\* a plausible slip: the failure of the write is reported to the caller
GeneratePoemSave_Report(r) ==
    /\ req[r].pc = "gen_save"
    /\ \E ok \in BOOLEAN :
         /\ poems' = IF ok THEN Append(poems, NewPoem(req[r])) ELSE poems
         /\ req' = [req EXCEPT ![r] =
                    IF ok THEN [@ EXCEPT !.pc = "done"]
                    ELSE Respond(@, "generatePoem", 500, "Internal server error", Undefined)]
    /\ UNCHANGED <<allowedUserIds, allowlist, lastSnapshot, errors, everNonEmpty>>

\* db.collection('poems').add(...): the write succeeds or its error is logged
GeneratePoemSave(r) ==
    /\ req[r].pc = "gen_save"
    /\ \E ok \in BOOLEAN :
         poems' = IF ok THEN Append(poems, NewPoem(req[r])) ELSE poems
    /\ req' = [req EXCEPT ![r] = [@ EXCEPT !.pc = "done"]]
    /\ UNCHANGED <<allowedUserIds, allowlist, lastSnapshot, errors, everNonEmpty>>

----------------------------------------------------------------------------
(* controllers/poemController.js: getPoem and getPublicPoem *)

Max0(n) == IF n > 0 THEN n ELSE 0

\* { ...doc, index: i }
Annotate(doc, i) ==
    [id |-> doc.id, userId |-> doc.userId, isFavorite |-> doc.isFavorite,
     timestamp |-> doc.timestamp, index |-> i]

\* docs[k] ? { ...docs[k], index: i } : null   (k counts from 0)
Slot(docs, k, i) == IF Len(docs) > k THEN <<Annotate(docs[k + 1], i)>> ELSE <<>>

NullBody == [currentPoem |-> <<>>, nextPoem |-> <<>>, previousPoem |-> <<>>]

\* a plausible slip: the window starts at the index itself
GetPoemPlan_OffsetIndex(query) ==
    LET parsed == ParseInt(query.index)
        index  == IF parsed.nan \/ parsed.val < 0 THEN 0 ELSE parsed.val
    IN  [index         |-> index,
         offset        |-> Max0(index),
         limitVal      |-> IF index = 0 THEN 2 ELSE 3,
         favoritesOnly |-> query.favoritesOnly = "true",
         sortByDate    |-> query.sortByDate = "true"]

\* getPoem: the index, the window and the filters of its range query
GetPoemPlan(query) ==
    LET parsed == ParseInt(query.index)
        index  == IF parsed.nan \/ parsed.val < 0 THEN 0 ELSE parsed.val
    IN  [index         |-> index,
         offset        |-> Max0(index - 1),
         limitVal      |-> IF index = 0 THEN 2 ELSE 3,
         favoritesOnly |-> query.favoritesOnly = "true",
         sortByDate    |-> query.sortByDate = "true"]

\* a plausible slip: at index 0 the second row is handed out as next
GetPoemBody_NextAtZero(index, docs) ==
    IF docs = <<>> THEN NullBody
    ELSE IF index = 0
    THEN [currentPoem  |-> Slot(docs, 0, 0),
          previousPoem |-> <<>>,
          nextPoem     |-> Slot(docs, 1, 1)]
    ELSE [nextPoem     |-> Slot(docs, 0, index - 1),
          currentPoem  |-> Slot(docs, 1, index),
          previousPoem |-> Slot(docs, 2, index + 1)]

\* a plausible slip: a window with fewer rows than asked for is answered
\* like an empty one
GetPoemBody_ShortIsEmpty(index, docs) ==
    IF Len(docs) < (IF index = 0 THEN 2 ELSE 3) THEN NullBody
    ELSE IF index = 0
    THEN [currentPoem  |-> Slot(docs, 0, 0),
          previousPoem |-> Slot(docs, 1, 1),
          nextPoem     |-> <<>>]
    ELSE [nextPoem     |-> Slot(docs, 0, index - 1),
          currentPoem  |-> Slot(docs, 1, index),
          previousPoem |-> Slot(docs, 2, index + 1)]

\* getPoem: the body built from the rows of the window
GetPoemBody(index, docs) ==
    IF docs = <<>> THEN NullBody
    ELSE IF index = 0
    THEN [currentPoem  |-> Slot(docs, 0, 0),
          previousPoem |-> Slot(docs, 1, 1),
          nextPoem     |-> <<>>]
    ELSE [nextPoem     |-> Slot(docs, 0, index - 1),
          currentPoem  |-> Slot(docs, 1, index),
          previousPoem |-> Slot(docs, 2, index + 1)]

\* res.json({ currentPoem, nextPoem, previousPoem }) sent by `who`
RespondPoems(q, who, body) ==
    [Respond(q, who, 200, Undefined, Undefined)
       EXCEPT !.currentPoem = body.currentPoem, !.nextPoem = body.nextPoem,
              !.previousPoem = body.previousPoem]

\* a plausible slip: a userid parameter, when sent, names the owner, as on
\* the public route
GetPoemStart_FromParam(r) ==
    /\ req[r].pc = "route"
    /\ req[r].path = "/getPoem"
    /\ req' = [req EXCEPT ![r] =
                [@ EXCEPT !.handled = TRUE,
                          !.userId = IF Truthy(req[r].userid) THEN req[r].userid
                                     ELSE req[r].user[1].uid,
                          !.plan = GetPoemPlan(req[r]), !.queries = @ + 1,
                          !.pc = "getPoem_query"]]
    /\ UNCHANGED <<allowedUserIds, allowlist, poems, lastSnapshot, errors, everNonEmpty>>

\* getPoem up to its await: the subject, the index, the range query
GetPoemStart(r) ==
    /\ req[r].pc = "route"
    /\ req[r].path = "/getPoem"
    /\ req' = [req EXCEPT ![r] =
                [@ EXCEPT !.handled = TRUE, !.userId = req[r].user[1].uid,
                          !.plan = GetPoemPlan(req[r]), !.queries = @ + 1,
                          !.pc = "getPoem_query"]]
    /\ UNCHANGED <<allowedUserIds, allowlist, poems, lastSnapshot, errors, everNonEmpty>>

\* getPoem after the query answered
GetPoemAnswered(r) ==
    /\ req[r].pc = "getPoem_query"
    /\ LET q    == req[r]
           rows == RunQuery(poems, q.userId, q.plan.favoritesOnly, q.plan.sortByDate,
                            q.plan.offset, q.plan.limitVal)
       IN  req' = [req EXCEPT ![r] = RespondPoems(q, "getPoem", GetPoemBody(q.plan.index, rows))]
    /\ UNCHANGED <<allowedUserIds, allowlist, poems, lastSnapshot, errors, everNonEmpty>>

\* a plausible slip: the public handler forgets the favoritesOnly filter
GetPublicPoemPlan_NoFilter(query) ==
    LET parsed == ParseInt(query.index)
        index  == IF parsed.nan \/ parsed.val < 0 THEN 0 ELSE parsed.val
    IN  [index         |-> index,
         offset        |-> Max0(index - 1),
         limitVal      |-> IF index = 0 THEN 2 ELSE 3,
         favoritesOnly |-> FALSE,
         sortByDate    |-> query.sortByDate = "true"]

\* getPublicPoem: the index, the window and the filters of its range query
GetPublicPoemPlan(query) ==
    LET parsed == ParseInt(query.index)
        index  == IF parsed.nan \/ parsed.val < 0 THEN 0 ELSE parsed.val
    IN  [index         |-> index,
         offset        |-> Max0(index - 1),
         limitVal      |-> IF index = 0 THEN 2 ELSE 3,
         favoritesOnly |-> query.favoritesOnly = "true",
         sortByDate    |-> query.sortByDate = "true"]

\* getPublicPoem: the body built from the rows of the window
GetPublicPoemBody(index, docs) ==
    IF docs = <<>> THEN NullBody
    ELSE IF index = 0
    THEN [currentPoem  |-> Slot(docs, 0, 0),
          previousPoem |-> Slot(docs, 1, 1),
          nextPoem     |-> <<>>]
    ELSE [nextPoem     |-> Slot(docs, 0, index - 1),
          currentPoem  |-> Slot(docs, 1, index),
          previousPoem |-> Slot(docs, 2, index + 1)]

\* getPublicPoem up to its await: the userid parameter, the index, the 400
\* test, the range query
GetPublicPoemStart(r) ==
    /\ req[r].pc = "route"
    /\ req[r].path = "/public/getPoem"
    /\ LET q == [req[r] EXCEPT !.handled = TRUE, !.userId = req[r].userid] IN
       req' = [req EXCEPT ![r] =
         IF ~Truthy(q.userId)
         THEN Respond(q, "getPublicPoem", 400, "Missing userid parameter", Undefined)
         ELSE [q EXCEPT !.plan = GetPublicPoemPlan(q), !.queries = @ + 1,
                        !.pc = "getPublicPoem_query"]]
    /\ UNCHANGED <<allowedUserIds, allowlist, poems, lastSnapshot, errors, everNonEmpty>>

\* getPublicPoem after the query answered
GetPublicPoemAnswered(r) ==
    /\ req[r].pc = "getPublicPoem_query"
    /\ LET q    == req[r]
           rows == RunQuery(poems, q.userId, q.plan.favoritesOnly, q.plan.sortByDate,
                            q.plan.offset, q.plan.limitVal)
       IN  req' = [req EXCEPT ![r] =
                     RespondPoems(q, "getPublicPoem", GetPublicPoemBody(q.plan.index, rows))]
    /\ UNCHANGED <<allowedUserIds, allowlist, poems, lastSnapshot, errors, everNonEmpty>>

----------------------------------------------------------------------------
(* controllers/poemController.js: deletePoem *)

\* the stored document with this id, as a set of at most one
StoredPoem(coll, id) == { x \in DocsOf(coll) : x.id = id }

\* deletePoem up to its first await: the id test, the fetch of the document
DeletePoemStart(r) ==
    /\ req[r].pc = "route"
    /\ req[r].path = "/deletePoem"
    /\ LET q == [req[r] EXCEPT !.handled = TRUE, !.userId = req[r].user[1].uid] IN
       req' = [req EXCEPT ![r] =
         IF q.id = 0
         THEN Respond(q, "deletePoem", 400, "Missing id", Undefined)
         ELSE [q EXCEPT !.reads = @ + 1, !.pc = "deletePoem_get"]]
    /\ UNCHANGED <<allowedUserIds, allowlist, poems, lastSnapshot, errors, everNonEmpty>>

\* a plausible slip: the owner test is dropped
DeletePoemGuard_NoOwnerTest(q, found) ==
    IF found = {}
    THEN Respond(q, "deletePoem", 404, "Poem not found", Undefined)
    ELSE [q EXCEPT !.deletes = @ + 1, !.pc = "deletePoem_delete"]

\* the tests on the fetched document, then poemRef.delete() (an await)
DeletePoemGuard(q, found) ==
    IF found = {}
    THEN Respond(q, "deletePoem", 404, "Poem not found", Undefined)
    ELSE IF (CHOOSE x \in found : TRUE).userId # q.userId
    THEN Respond(q, "deletePoem", 403, "Unauthorized to delete this poem", Undefined)
    ELSE [q EXCEPT !.deletes = @ + 1, !.pc = "deletePoem_delete"]

\* deletePoem after the document was fetched
DeletePoemFetched(r) ==
    /\ req[r].pc = "deletePoem_get"
    /\ req' = [req EXCEPT ![r] = DeletePoemGuard(req[r], StoredPoem(poems, req[r].id))]
    /\ UNCHANGED <<allowedUserIds, allowlist, poems, lastSnapshot, errors, everNonEmpty>>

\* the collection without the document with this id
WithoutPoem(coll, id) == SelectSeq(coll, LAMBDA x : x.id # id)

\* the datastore deletes the document, then res.json({ success: true })
DeletePoemDeleted(r) ==
    /\ req[r].pc = "deletePoem_delete"
    /\ poems' = WithoutPoem(poems, req[r].id)
    /\ req' = [req EXCEPT ![r] = Respond(req[r], "deletePoem", 200, Undefined, Undefined)]
    /\ UNCHANGED <<allowedUserIds, allowlist, lastSnapshot, errors, everNonEmpty>>

----------------------------------------------------------------------------
(* controllers/poemController.js: toggleFavorite *)

\* req.body.status: not sent, the JSON booleans true and false, or the
\* JSON strings 'true' and 'false'
StatusInputs == {Undefined, "TRUE", "FALSE", "'true'", "'false'"}

\* a plausible slip: the status sent is ignored, the flag is always flipped
NewStatus_AlwaysFlip(status, isFavorite) == ~isFavorite

\* status !== undefined ? (status === true || status === 'true')
\*                      : !poemData.isFavorite
NewStatus(status, isFavorite) ==
    IF status # Undefined THEN status \in {"TRUE", "'true'"} ELSE ~isFavorite

\* toggleFavorite up to its first await: the id test, the fetch of the
\* document
ToggleFavoriteStart(r) ==
    /\ req[r].pc = "route"
    /\ req[r].path = "/toggleFavorite"
    /\ LET q == [req[r] EXCEPT !.handled = TRUE, !.userId = req[r].user[1].uid] IN
       req' = [req EXCEPT ![r] =
         IF q.id = 0
         THEN Respond(q, "toggleFavorite", 400, "Missing id", Undefined)
         ELSE [q EXCEPT !.reads = @ + 1, !.pc = "toggleFavorite_get"]]
    /\ UNCHANGED <<allowedUserIds, allowlist, poems, lastSnapshot, errors, everNonEmpty>>

\* a plausible slip: the owner is compared before the document is known to
\* exist, a missing document counts as another owner's
ToggleFavoriteGuard_OwnerFirst(q, found) ==
    IF found = {} \/ (CHOOSE x \in found : TRUE).userId # q.userId
    THEN Respond(q, "toggleFavorite", 403, "Unauthorized to modify this poem", Undefined)
    ELSE LET x == CHOOSE y \in found : TRUE IN
         [q EXCEPT !.poemData = <<x>>,
                   !.newStatus = <<NewStatus(q.bodyStatus, x.isFavorite)>>,
                   !.updates = @ + 1, !.pc = "toggleFavorite_update"]

\* the tests on the fetched document, the new status, then
\* poemRef.update() (an await)
ToggleFavoriteGuard(q, found) ==
    IF found = {}
    THEN Respond(q, "toggleFavorite", 404, "Poem not found", Undefined)
    ELSE LET x == CHOOSE y \in found : TRUE IN
         IF x.userId # q.userId
         THEN Respond([q EXCEPT !.poemData = <<x>>], "toggleFavorite", 403,
                      "Unauthorized to modify this poem", Undefined)
         ELSE [q EXCEPT !.poemData = <<x>>,
                        !.newStatus = <<NewStatus(q.bodyStatus, x.isFavorite)>>,
                        !.updates = @ + 1, !.pc = "toggleFavorite_update"]

\* toggleFavorite after the document was fetched
ToggleFavoriteFetched(r) ==
    /\ req[r].pc = "toggleFavorite_get"
    /\ req' = [req EXCEPT ![r] = ToggleFavoriteGuard(req[r], StoredPoem(poems, req[r].id))]
    /\ UNCHANGED <<allowedUserIds, allowlist, poems, lastSnapshot, errors, everNonEmpty>>

\* the collection with isFavorite of the document with this id set to b
WithFavorite(coll, id, b) ==
    [i \in DOMAIN coll |-> IF coll[i].id = id THEN [coll[i] EXCEPT !.isFavorite = b]
                                              ELSE coll[i]]

\* a plausible slip in the other direction: the flag is read again and
\* negated when the update is applied, as in a transaction
ToggleFavoriteUpdated_Atomic(r) ==
    /\ req[r].pc = "toggleFavorite_update"
    /\ IF StoredPoem(poems, req[r].id) = {}
       THEN /\ poems' = poems
            /\ req' = [req EXCEPT ![r] =
                 Respond(req[r], "toggleFavorite", 500, "Internal server error", Undefined)]
       ELSE LET b == NewStatus(req[r].bodyStatus,
                               (CHOOSE x \in StoredPoem(poems, req[r].id) : TRUE).isFavorite)
            IN  /\ poems' = WithFavorite(poems, req[r].id, b)
                /\ req' = [req EXCEPT ![r] =
                     [Respond(req[r], "toggleFavorite", 200, Undefined, Undefined)
                        EXCEPT !.isFavorite = <<b>>]]
    /\ UNCHANGED <<allowedUserIds, allowlist, lastSnapshot, errors, everNonEmpty>>

\* a plausible slip: the write is a set with merge, which creates the
\* document when it is gone
ToggleFavoriteUpdated_Upsert(r) ==
    /\ req[r].pc = "toggleFavorite_update"
    /\ poems' = IF StoredPoem(poems, req[r].id) = {}
                THEN Append(poems, [req[r].poemData[1] EXCEPT !.isFavorite = req[r].newStatus[1]])
                ELSE WithFavorite(poems, req[r].id, req[r].newStatus[1])
    /\ req' = [req EXCEPT ![r] =
                [Respond(req[r], "toggleFavorite", 200, Undefined, Undefined)
                   EXCEPT !.isFavorite = req[r].newStatus]]
    /\ UNCHANGED <<allowedUserIds, allowlist, lastSnapshot, errors, everNonEmpty>>

\* the datastore applies update({ isFavorite: newStatus }), then
\* res.json({ success: true, isFavorite: newStatus }); the update of a
\* document that is gone is rejected and the catch answers 500
ToggleFavoriteUpdated(r) ==
    /\ req[r].pc = "toggleFavorite_update"
    /\ IF StoredPoem(poems, req[r].id) = {}
       THEN /\ poems' = poems
            /\ req' = [req EXCEPT ![r] =
                 Respond(req[r], "toggleFavorite", 500, "Internal server error", Undefined)]
       ELSE /\ poems' = WithFavorite(poems, req[r].id, req[r].newStatus[1])
            /\ req' = [req EXCEPT ![r] =
                 [Respond(req[r], "toggleFavorite", 200, Undefined, Undefined)
                    EXCEPT !.isFavorite = req[r].newStatus]]
    /\ UNCHANGED <<allowedUserIds, allowlist, lastSnapshot, errors, everNonEmpty>>

----------------------------------------------------------------------------
(* controllers/poemController.js: listPoems *)

\* const limit = 50
PageSize == 50

\* listPoems: the page (kept in the index field of the plan), the window
\* and the ordering of its range query
ListPoemsPlan(query) ==
    LET parsed == ParseInt(query.page)
        page   == IF parsed.nan \/ parsed.val < 1 THEN 1 ELSE parsed.val
    IN  [index         |-> page,
         offset        |-> (page - 1) * PageSize,
         limitVal      |-> PageSize,
         favoritesOnly |-> FALSE,
         sortByDate    |-> query.sortByDate = "true"]

\* listPoems up to its await: the subject, the page, the range query
ListPoemsStart(r) ==
    /\ req[r].pc = "route"
    /\ req[r].path = "/poemList"
    /\ req' = [req EXCEPT ![r] =
                [@ EXCEPT !.handled = TRUE, !.userId = req[r].user[1].uid,
                          !.plan = ListPoemsPlan(req[r]), !.queries = @ + 1,
                          !.pc = "listPoems_query"]]
    /\ UNCHANGED <<allowedUserIds, allowlist, poems, lastSnapshot, errors, everNonEmpty>>

\* listPoems after the query answered: res.json(docs)
ListPoemsAnswered(r) ==
    /\ req[r].pc = "listPoems_query"
    /\ LET q    == req[r]
           rows == RunQuery(poems, q.userId, q.plan.favoritesOnly, q.plan.sortByDate,
                            q.plan.offset, q.plan.limitVal)
       IN  req' = [req EXCEPT ![r] =
                     [Respond(q, "listPoems", 200, Undefined, Undefined) EXCEPT !.docs = rows]]
    /\ UNCHANGED <<allowedUserIds, allowlist, poems, lastSnapshot, errors, everNonEmpty>>

----------------------------------------------------------------------------
(* controllers/userController.js: getSettings and updateSettings *)

\* An object is a function from the names of its fields to their values;
\* a field that is undefined is not in its domain.
EmptyObject == [f \in {} |-> Undefined]

\* the fields of the data of an allowlist document that carries settings
DataFields == {"uid", "geminiApiKey", "timezone", "themeMode", "penName", "webDisplayPoem"}

\* doc.data(): the fields the document has
DataOf(doc) == [f \in { g \in DataFields : doc[g] # Undefined } |-> doc[f]]

\* a plausible slip: the key is left in the object sent back
SafeSettings_WithKey(data) == data

\* const { geminiApiKey, ...safeSettings } = data
SafeSettings(data) == [f \in DOMAIN data \ {"geminiApiKey"} |-> data[f]]

\* !!geminiApiKey && geminiApiKey.length > 0
HasGeminiApiKey(data) ==
    "geminiApiKey" \in DOMAIN data /\ Truthy(data["geminiApiKey"])

\* where('uid', '==', uid).limit(1).get(): the documents it can answer with
DocsOfUid(coll, uid) == { d \in coll : d.uid = uid }

\* getSettings up to its await: the subject, the lookup of the document
GetSettingsStart(r) ==
    /\ req[r].pc = "route"
    /\ req[r].path = "/get-settings"
    /\ req' = [req EXCEPT ![r] =
                [@ EXCEPT !.handled = TRUE, !.userId = req[r].user[1].uid,
                          !.lookups = @ + 1, !.pc = "getSettings_lookup"]]
    /\ UNCHANGED <<allowedUserIds, allowlist, poems, lastSnapshot, errors, everNonEmpty>>

\* getSettings after the lookup answered
GetSettingsAnswered(r) ==
    /\ req[r].pc = "getSettings_lookup"
    /\ LET q == req[r] IN
       IF DocsOfUid(allowlist, q.userId) = {}
       THEN req' = [req EXCEPT ![r] =
              [Respond(q, "getSettings", 200, Undefined, Undefined) EXCEPT !.body = <<EmptyObject>>]]
       ELSE \E d \in DocsOfUid(allowlist, q.userId) :
              req' = [req EXCEPT ![r] =
                [Respond(q, "getSettings", 200, Undefined, Undefined)
                   EXCEPT !.target = <<d.id>>,
                          !.body = <<SafeSettings(DataOf(d))>>,
                          !.hasGeminiApiKey = <<HasGeminiApiKey(DataOf(d))>>]]
    /\ UNCHANGED <<allowedUserIds, allowlist, poems, lastSnapshot, errors, everNonEmpty>>

\* the fields updateSettings may write
SettingsFields == {"geminiApiKey", "timezone", "themeMode", "penName"}

\* a plausible slip: every field sent is written
Updates_AllSent(settings) == settings

\* if (settings.f !== undefined) updates.f = settings.f, for the four fields
Updates(settings) == [f \in DOMAIN settings \cap SettingsFields |-> settings[f]]

\* updateSettings up to its await: the test of settings, the lookup
UpdateSettingsStart(r) ==
    /\ req[r].pc = "route"
    /\ req[r].path = "/update-settings"
    /\ LET q == [req[r] EXCEPT !.handled = TRUE, !.userId = req[r].user[1].uid] IN
       req' = [req EXCEPT ![r] =
         IF q.settings.kind # "object"
         THEN Respond(q, "updateSettings", 400, "Invalid settings", Undefined)
         ELSE [q EXCEPT !.lookups = @ + 1, !.pc = "updateSettings_lookup"]]
    /\ UNCHANGED <<allowedUserIds, allowlist, poems, lastSnapshot, errors, everNonEmpty>>

\* updateSettings after the lookup answered: the 404 test, the updates,
\* then doc.ref.update(updates) (an await)
UpdateSettingsFound(r) ==
    /\ req[r].pc = "updateSettings_lookup"
    /\ LET q == req[r] IN
       IF DocsOfUid(allowlist, q.userId) = {}
       THEN req' = [req EXCEPT ![r] =
              Respond(q, "updateSettings", 404, "User not found in allowlist", Undefined)]
       ELSE \E d \in DocsOfUid(allowlist, q.userId) :
              req' = [req EXCEPT ![r] =
                [q EXCEPT !.target = <<d.id>>,
                          !.settingsUpdates = <<Updates(q.settings.object)>>,
                          !.writes = @ + 1, !.pc = "updateSettings_update"]]
    /\ UNCHANGED <<allowedUserIds, allowlist, poems, lastSnapshot, errors, everNonEmpty>>

\* the document with the fields of the update written over it
Updated(doc, updates) ==
    [f \in DOMAIN doc |-> IF f \in DOMAIN updates THEN updates[f] ELSE doc[f]]

\* the datastore applies the update, then res.json({ success: true }).  The
\* update of a document that is gone is rejected, and so may be an update
\* without a field; the catch answers 500.
UpdateSettingsUpdated(r) ==
    /\ req[r].pc = "updateSettings_update"
    /\ LET q    == req[r]
           docs == { d \in allowlist : d.id = q.target[1] }
       IN  \/ /\ docs # {}
              /\ allowlist' = (allowlist \ docs)
                                \cup { Updated(d, q.settingsUpdates[1]) : d \in docs }
              /\ req' = [req EXCEPT ![r] =
                          Respond(q, "updateSettings", 200, Undefined, Undefined)]
           \/ /\ docs = {} \/ DOMAIN q.settingsUpdates[1] = {}
              /\ allowlist' = allowlist
              /\ req' = [req EXCEPT ![r] =
                          Respond(q, "updateSettings", 500, "Internal server error", Undefined)]
    /\ UNCHANGED <<allowedUserIds, poems, lastSnapshot, errors, everNonEmpty>>

----------------------------------------------------------------------------
(* controllers/userController.js: setWebDisplayPoem *)

\* the value JSON null
Null == "null"

\* { webDisplayPoem: poemId || null }
WebDisplayUpdate(poemId) ==
    [f \in {"webDisplayPoem"} |-> IF Truthy(poemId) THEN poemId ELSE Null]

\* setWebDisplayPoem up to its await: the subject, the lookup of the
\* caller's document
SetWebDisplayPoemStart(r) ==
    /\ req[r].pc = "route"
    /\ req[r].path = "/set-web-display-poem"
    /\ req' = [req EXCEPT ![r] =
                [@ EXCEPT !.handled = TRUE, !.userId = req[r].user[1].uid,
                          !.lookups = @ + 1, !.pc = "setWebDisplayPoem_lookup"]]
    /\ UNCHANGED <<allowedUserIds, allowlist, poems, lastSnapshot, errors, everNonEmpty>>

\* setWebDisplayPoem after the lookup answered: the 404 test, then
\* snapshot.docs[0].ref.update(...) (an await)
SetWebDisplayPoemFound(r) ==
    /\ req[r].pc = "setWebDisplayPoem_lookup"
    /\ LET q == req[r] IN
       IF DocsOfUid(allowlist, q.userId) = {}
       THEN req' = [req EXCEPT ![r] =
              Respond(q, "setWebDisplayPoem", 404, "User not found in allowlist", Undefined)]
       ELSE \E d \in DocsOfUid(allowlist, q.userId) :
              req' = [req EXCEPT ![r] =
                [q EXCEPT !.target = <<d.id>>,
                          !.settingsUpdates = <<WebDisplayUpdate(q.poemId)>>,
                          !.writes = @ + 1, !.pc = "setWebDisplayPoem_update"]]
    /\ UNCHANGED <<allowedUserIds, allowlist, poems, lastSnapshot, errors, everNonEmpty>>

\* the datastore applies the update, then res.json({ success: true }); the
\* update of a document that is gone is rejected and the catch answers 500
SetWebDisplayPoemUpdated(r) ==
    /\ req[r].pc = "setWebDisplayPoem_update"
    /\ LET q    == req[r]
           docs == { d \in allowlist : d.id = q.target[1] }
       IN  IF docs # {}
           THEN /\ allowlist' = (allowlist \ docs)
                                  \cup { Updated(d, q.settingsUpdates[1]) : d \in docs }
                /\ req' = [req EXCEPT ![r] =
                            Respond(q, "setWebDisplayPoem", 200, Undefined, Undefined)]
           ELSE /\ allowlist' = allowlist
                /\ req' = [req EXCEPT ![r] =
                            Respond(q, "setWebDisplayPoem", 500, "Internal server error", Undefined)]
    /\ UNCHANGED <<allowedUserIds, poems, lastSnapshot, errors, everNonEmpty>>

----------------------------------------------------------------------------
(* controllers/adminController.js: getUsers and addUser *)

\* process.env.ADMIN_UID
ADMIN_UID == "u1"

\* a plausible slip: the admin test is dropped
NotAdmin_Nobody(userid) == FALSE

\* userid !== ADMIN_UID
NotAdmin(userid) == userid # ADMIN_UID

\* what auth.listUsers can answer: the accounts of the identity provider
AuthUsers == SUBSET Subjects

\* getUsers up to its first await: the admin test, the read of the allowlist
GetUsersStart(r) ==
    /\ req[r].pc = "route"
    /\ req[r].path = "/admin/users"
    /\ LET q == [req[r] EXCEPT !.handled = TRUE, !.userId = req[r].user[1].uid] IN
       req' = [req EXCEPT ![r] =
         IF NotAdmin(q.userId)
         THEN Respond(q, "getUsers", 403, "Access denied: Unauthorized", Undefined)
         ELSE [q EXCEPT !.lookups = @ + 1, !.pc = "getUsers_allowlist"]]
    /\ UNCHANGED <<allowedUserIds, allowlist, poems, lastSnapshot, errors, everNonEmpty>>

\* getUsers after the allowlist was read: allowedUids, then auth.listUsers
\* (an await)
GetUsersRead(r) ==
    /\ req[r].pc = "getUsers_allowlist"
    /\ req' = [req EXCEPT ![r] =
                [@ EXCEPT !.allowedUids = <<{ d.uid : d \in allowlist }>>,
                          !.pc = "getUsers_auth"]]
    /\ UNCHANGED <<allowedUserIds, allowlist, poems, lastSnapshot, errors, everNonEmpty>>

\* getUsers after the accounts were listed: res.json({ allowed, others })
GetUsersListed(r) ==
    /\ req[r].pc = "getUsers_auth"
    /\ \E users \in AuthUsers :
         req' = [req EXCEPT ![r] =
           [Respond(req[r], "getUsers", 200, Undefined, Undefined)
              EXCEPT !.body = <<[allowed |-> req[r].allowedUids[1],
                                 others  |-> users \ req[r].allowedUids[1]]>>]]
    /\ UNCHANGED <<allowedUserIds, allowlist, poems, lastSnapshot, errors, everNonEmpty>>

\* req.body.newUid
NewUids == Subjects \cup {Undefined, ""}

\* addUser up to its first await: the admin test, the newUid test, the
\* lookup of an entry with that uid
AddUserStart(r) ==
    /\ req[r].pc = "route"
    /\ req[r].path = "/admin/add-user"
    /\ LET q == [req[r] EXCEPT !.handled = TRUE, !.userId = req[r].user[1].uid] IN
       req' = [req EXCEPT ![r] =
         IF NotAdmin(q.userId)
         THEN Respond(q, "addUser", 403, "Access denied: Unauthorized", Undefined)
         ELSE IF ~Truthy(q.newUid)
         THEN Respond(q, "addUser", 400, "Missing newUid", Undefined)
         ELSE [q EXCEPT !.lookups = @ + 1, !.pc = "addUser_lookup"]]
    /\ UNCHANGED <<allowedUserIds, allowlist, poems, lastSnapshot, errors, everNonEmpty>>

\* addUser after the lookup answered: the test for an entry with that uid,
\* then allowlistRef.add(...) (an await)
AddUserChecked(r) ==
    /\ req[r].pc = "addUser_lookup"
    /\ req' = [req EXCEPT ![r] =
         IF DocsOfUid(allowlist, req[r].newUid) # {}
         THEN Respond(req[r], "addUser", 400, "User already in whitelist", Undefined)
         ELSE [req[r] EXCEPT !.writes = @ + 1, !.pc = "addUser_add"]]
    /\ UNCHANGED <<allowedUserIds, allowlist, poems, lastSnapshot, errors, everNonEmpty>>

\* the names the datastore gives new allowlist documents
DocNames == <<"d1", "d2", "d3", "d4", "d5", "d6", "d7", "d8">>

\* the id allowlistRef.add gives the new document: one no document has
FreshDocId ==
    DocNames[CHOOSE i \in DOMAIN DocNames :
               /\ \A d \in allowlist : d.id # DocNames[i]
               /\ \A j \in 1..(i - 1) : \E d \in allowlist : d.id = DocNames[j]]

\* the datastore adds the entry, then res.json({ success: true, uid })
AddUserAdded(r) ==
    /\ req[r].pc = "addUser_add"
    /\ allowlist' = allowlist \cup
                      { [id |-> FreshDocId, uid |-> req[r].newUid, geminiApiKey |-> Undefined] }
    /\ req' = [req EXCEPT ![r] = Respond(req[r], "addUser", 200, Undefined, Undefined)]
    /\ UNCHANGED <<allowedUserIds, poems, lastSnapshot, errors, everNonEmpty>>

----------------------------------------------------------------------------
(* Specification *)

Init ==
    /\ allowedUserIds = {}
    /\ allowlist \in AllowlistStates
    /\ poems = <<>>
    /\ req = [r \in Reqs |-> IdleReq]
    /\ lastSnapshot = <<>>
    /\ errors = 0
    /\ everNonEmpty = FALSE

Next ==
    \/ OnSnapshot
    \/ \E r \in Reqs : Arrive(r)
    \/ \E r \in Reqs : Retire(r)
    \/ \E r \in Reqs : AuthenticateStart(r)
    \/ \E r \in Reqs : AuthenticateResume(r)
    \/ \E r \in Reqs : RouteHandler(r)
    \/ \E r \in Reqs : GeneratePoemStart(r)
    \/ \E r \in Reqs : GeneratePoemVerified(r)
    \/ \E r \in Reqs : GeneratePoemLookup(r)
    \/ \E r \in Reqs : GeneratePoemGenerated(r)
    \/ \E r \in Reqs : GeneratePoemSave(r)

Spec == Init /\ [][Next]_vars

\* The same with the event loop running every continuation that is ready:
\* a request that entered authenticate is run to its await, and resumed
\* when the verifier has settled.
SpecLive ==
    /\ Spec
    /\ \A r \in Reqs : WF_vars(AuthenticateStart(r)) /\ WF_vars(AuthenticateResume(r))

\* The cache and its readers: the allowlist collection starts empty and is
\* written while the subscription delivers snapshots and errors and while
\* requests on the protected routes pass through authenticate.
InitCache ==
    /\ allowedUserIds = {}
    /\ allowlist = {}
    /\ poems = <<>>
    /\ req = [r \in Reqs |-> IdleReq]
    /\ lastSnapshot = <<>>
    /\ errors = 0
    /\ everNonEmpty = FALSE

\* a request for a protected route arrives
ArriveProtected(r) ==
    /\ req[r].pc = "idle"
    /\ \E h \in Headers :
         req' = [req EXCEPT ![r] =
                [IdleReq EXCEPT !.pc = "auth", !.path = "/getPoem", !.authorization = h]]
    /\ UNCHANGED <<allowedUserIds, allowlist, poems, lastSnapshot, errors, everNonEmpty>>

NextCache ==
    \/ DatastoreWrite
    \/ OnSnapshot
    \/ OnSnapshotError
    \/ \E r \in Reqs : ArriveProtected(r)
    \/ \E r \in Reqs : AuthenticateStart(r)
    \/ \E r \in Reqs : AuthenticateResume(r)
    \/ \E r \in Reqs : RouteHandler(r)
    \/ \E r \in Reqs : Retire(r)

SpecCache == InitCache /\ [][NextCache]_vars

\* The poem handlers: the collection holds any poems created so far (ids
\* and timestamps grow with the time of creation, some poems are deleted
\* already) and requests for navigation and delete come in through
\* authenticate.
SlotChoices == [present : BOOLEAN, userId : Subjects, isFavorite : BOOLEAN]

StoreOf(g) ==
    LET kept == SelectSeq([i \in 1..MaxItems |-> i], LAMBDA i : g[i].present)
    IN  [k \in 1..Len(kept) |-> Poem(kept[k], g[kept[k]].userId, g[kept[k]].isFavorite, kept[k])]

PoemStores == { StoreOf(g) : g \in [1..MaxItems -> SlotChoices] }

InitPoems ==
    /\ allowedUserIds = {}
    /\ allowlist = {}
    /\ poems \in PoemStores
    /\ req = [r \in Reqs |-> IdleReq]
    /\ lastSnapshot = <<>>
    /\ errors = 0
    /\ everNonEmpty = FALSE

\* a request for /getPoem, /public/getPoem, /deletePoem or /toggleFavorite
\* arrives with its query parameters or its body
ArrivePoems(r) ==
    /\ req[r].pc = "idle"
    /\ \/ \E i \in NumberInputs, f \in BoolStrings, s \in {"true", Undefined} :
            req' = [req EXCEPT ![r] =
                   [IdleReq EXCEPT !.pc = "auth", !.path = "/getPoem",
                                   !.authorization = <<"Bearer ", "t1">>,
                                   !.index = i, !.favoritesOnly = f, !.sortByDate = s]]
       \/ \E i \in NumberInputs, f \in BoolStrings, s \in {"true", Undefined}, u \in QueryUserids :
            req' = [req EXCEPT ![r] =
                   [IdleReq EXCEPT !.pc = "auth", !.path = "/public/getPoem", !.userid = u,
                                   !.index = i, !.favoritesOnly = f, !.sortByDate = s]]
       \/ \E id \in 0..MaxItems :
            req' = [req EXCEPT ![r] =
                   [IdleReq EXCEPT !.pc = "auth", !.path = "/deletePoem",
                                   !.authorization = <<"Bearer ", "t1">>, !.id = id]]
       \/ \E id \in 0..MaxItems, st \in StatusInputs :
            req' = [req EXCEPT ![r] =
                   [IdleReq EXCEPT !.pc = "auth", !.path = "/toggleFavorite",
                                   !.authorization = <<"Bearer ", "t1">>, !.id = id,
                                   !.bodyStatus = st]]
    /\ UNCHANGED <<allowedUserIds, allowlist, poems, lastSnapshot, errors, everNonEmpty>>

NextPoems ==
    \/ \E r \in Reqs : ArrivePoems(r)
    \/ \E r \in Reqs : AuthenticateStart(r)
    \/ \E r \in Reqs : AuthenticateResume(r)
    \/ \E r \in Reqs : GetPoemStart(r)
    \/ \E r \in Reqs : GetPoemAnswered(r)
    \/ \E r \in Reqs : GetPublicPoemStart(r)
    \/ \E r \in Reqs : GetPublicPoemAnswered(r)
    \/ \E r \in Reqs : ToggleFavoriteStart(r)
    \/ \E r \in Reqs : ToggleFavoriteFetched(r)
    \/ \E r \in Reqs : ToggleFavoriteUpdated(r)
    \/ \E r \in Reqs : DeletePoemStart(r)
    \/ \E r \in Reqs : DeletePoemFetched(r)
    \/ \E r \in Reqs : DeletePoemDeleted(r)
    \/ \E r \in Reqs : Retire(r)

SpecPoems == InitPoems /\ [][NextPoems]_vars

\* The listing: collections large enough to fill more than one page, every
\* tenth poem another user's, every third a favorite.
ListStore(n) ==
    [i \in 1..n |-> Poem(i, IF i % 10 = 0 THEN "u2" ELSE "u1", i % 3 = 0, i)]

ListSizes == {0, 1, PageSize + 5, PageSize + 6, MaxListed}

InitList ==
    /\ allowedUserIds = {}
    /\ allowlist = {}
    /\ \E n \in ListSizes : poems = ListStore(n)
    /\ req = [r \in Reqs |-> IdleReq]
    /\ lastSnapshot = <<>>
    /\ errors = 0
    /\ everNonEmpty = FALSE

\* a request for /poemList arrives with its query parameters
ArriveList(r) ==
    /\ req[r].pc = "idle"
    /\ \E p \in NumberInputs, s \in BoolStrings :
         req' = [req EXCEPT ![r] =
                [IdleReq EXCEPT !.pc = "auth", !.path = "/poemList",
                                !.authorization = <<"Bearer ", "t1">>,
                                !.page = p, !.sortByDate = s]]
    /\ UNCHANGED <<allowedUserIds, allowlist, poems, lastSnapshot, errors, everNonEmpty>>

NextList ==
    \/ \E r \in Reqs : ArriveList(r)
    \/ \E r \in Reqs : AuthenticateStart(r)
    \/ \E r \in Reqs : AuthenticateResume(r)
    \/ \E r \in Reqs : ListPoemsStart(r)
    \/ \E r \in Reqs : ListPoemsAnswered(r)
    \/ \E r \in Reqs : Retire(r)

SpecList == InitList /\ [][NextList]_vars

\* Concurrent requests: two requests in flight at once toggle, delete and
\* generate poems.  Every subject has an allowlist document with a key and
\* the cache is still empty, so the flows are not cut short before they
\* reach the poems collection.
Racers == {"r1", "r2"}

RaceStores ==
    { c \in PoemStores : \A i \in DOMAIN c : c[i].id <= MaxRaceItems }

RaceAllowlist ==
    { [id |-> "d1", uid |-> "u1", geminiApiKey |-> "k1"],
      [id |-> "d2", uid |-> "u2", geminiApiKey |-> "k1"] }

InitRace ==
    /\ allowedUserIds = {}
    /\ allowlist = RaceAllowlist
    /\ poems \in RaceStores
    /\ req = [r \in Racers |-> IdleReq]
    /\ lastSnapshot = <<>>
    /\ errors = 0
    /\ everNonEmpty = FALSE

\* the generate requests that may still write a poem
Generating == { r \in DOMAIN req : req[r].path = "/generate-poem" /\ req[r].pc # "done" }

\* a request for /toggleFavorite, /deletePoem or /generate-poem arrives
ArriveRace(r) ==
    /\ req[r].pc = "idle"
    /\ \/ \E id \in 1..(MaxRaceItems + 1) :
            req' = [req EXCEPT ![r] =
                   [IdleReq EXCEPT !.pc = "auth", !.path = "/toggleFavorite",
                                   !.authorization = <<"Bearer ", "t1">>, !.id = id]]
       \/ \E id \in 1..(MaxRaceItems + 1) :
            req' = [req EXCEPT ![r] =
                   [IdleReq EXCEPT !.pc = "auth", !.path = "/deletePoem",
                                   !.authorization = <<"Bearer ", "t1">>, !.id = id]]
       \/ \E u \in Subjects :
            /\ Len(poems) + Cardinality(Generating) < MaxPoems
            /\ FreshId <= MaxRaceItems + 1
            /\ req' = [req EXCEPT ![r] =
                   [IdleReq EXCEPT !.pc = "auth", !.path = "/generate-poem",
                                   !.userid = u, !.image = TRUE]]
    /\ UNCHANGED <<allowedUserIds, allowlist, poems, lastSnapshot, errors, everNonEmpty>>

NextRace ==
    \/ \E r \in Racers : ArriveRace(r)
    \/ \E r \in Racers : AuthenticateStart(r)
    \/ \E r \in Racers : AuthenticateResume(r)
    \/ \E r \in Racers : ToggleFavoriteStart(r)
    \/ \E r \in Racers : ToggleFavoriteFetched(r)
    \/ \E r \in Racers : ToggleFavoriteUpdated(r)
    \/ \E r \in Racers : DeletePoemStart(r)
    \/ \E r \in Racers : DeletePoemFetched(r)
    \/ \E r \in Racers : DeletePoemDeleted(r)
    \/ \E r \in Racers : GeneratePoemStart(r)
    \/ \E r \in Racers : GeneratePoemLookup(r)
    \/ \E r \in Racers : GeneratePoemGenerated(r)
    \/ \E r \in Racers : GeneratePoemSave(r)
    \/ \E r \in Racers : Retire(r)

SpecRace == InitRace /\ [][NextRace]_vars

\* The admin routes with two requests in flight at once.  The collection
\* starts without two entries of one uid, and the subscription delivers
\* what add-user writes.
AdminStores ==
    { c \in AllowlistStates :
        /\ \A d \in c : d.uid # Undefined /\ d.geminiApiKey = Undefined
        /\ \A d1 \in c, d2 \in c : d1.uid = d2.uid => d1 = d2
        /\ \A d \in c : d.id = "d2" => \E e \in c : e.id = "d1" }

InitAdmin ==
    /\ allowedUserIds = {}
    /\ allowlist \in AdminStores
    /\ poems = <<>>
    /\ req = [r \in Racers |-> IdleReq]
    /\ lastSnapshot = <<>>
    /\ errors = 0
    /\ everNonEmpty = FALSE

\* the add-user requests that may still write an entry
Adding == { r \in DOMAIN req : req[r].path = "/admin/add-user" /\ req[r].pc # "done" }

\* a request for /admin/users or /admin/add-user arrives
ArriveAdmin(r) ==
    /\ req[r].pc = "idle"
    /\ \/ req' = [req EXCEPT ![r] =
                   [IdleReq EXCEPT !.pc = "auth", !.path = "/admin/users",
                                   !.authorization = <<"Bearer ", "t1">>]]
       \/ \E u \in NewUids :
            /\ Cardinality(allowlist) + Cardinality(Adding) < MaxEntries
            /\ req' = [req EXCEPT ![r] =
                   [IdleReq EXCEPT !.pc = "auth", !.path = "/admin/add-user",
                                   !.authorization = <<"Bearer ", "t1">>, !.newUid = u]]
    /\ UNCHANGED <<allowedUserIds, allowlist, poems, lastSnapshot, errors, everNonEmpty>>

NextAdmin ==
    \/ OnSnapshot
    \/ \E r \in Racers : ArriveAdmin(r)
    \/ \E r \in Racers : AuthenticateStart(r)
    \/ \E r \in Racers : AuthenticateResume(r)
    \/ \E r \in Racers : GetUsersStart(r)
    \/ \E r \in Racers : GetUsersRead(r)
    \/ \E r \in Racers : GetUsersListed(r)
    \/ \E r \in Racers : AddUserStart(r)
    \/ \E r \in Racers : AddUserChecked(r)
    \/ \E r \in Racers : AddUserAdded(r)
    \/ \E r \in Racers : Retire(r)

SpecAdmin == InitAdmin /\ [][NextAdmin]_vars

\* The authenticated readers with every parameter a caller can send: one
\* request for /getPoem or /poemList, with a userid and a favoritesOnly
\* parameter also where the handler does not read them.
PageInputs == { <<>>, <<"1">>, <<"2">> }

ArriveOwn(r) ==
    /\ req[r].pc = "idle"
    /\ \E f \in BoolStrings, s \in {"true", Undefined}, u \in Subjects \cup {Undefined} :
         \/ \E i \in 0..MaxIndex :
              req' = [req EXCEPT ![r] =
                     [IdleReq EXCEPT !.pc = "auth", !.path = "/getPoem",
                                     !.authorization = <<"Bearer ", "t1">>, !.userid = u,
                                     !.index = <<Digits[i + 1]>>,
                                     !.favoritesOnly = f, !.sortByDate = s]]
         \/ \E p \in PageInputs :
              req' = [req EXCEPT ![r] =
                     [IdleReq EXCEPT !.pc = "auth", !.path = "/poemList",
                                     !.authorization = <<"Bearer ", "t1">>, !.userid = u,
                                     !.page = p,
                                     !.favoritesOnly = f, !.sortByDate = s]]
    /\ UNCHANGED <<allowedUserIds, allowlist, poems, lastSnapshot, errors, everNonEmpty>>

NextOwn ==
    \/ \E r \in Reqs : ArriveOwn(r)
    \/ \E r \in Reqs : AuthenticateStart(r)
    \/ \E r \in Reqs : AuthenticateResume(r)
    \/ \E r \in Reqs : GetPoemStart(r)
    \/ \E r \in Reqs : GetPoemAnswered(r)
    \/ \E r \in Reqs : ListPoemsStart(r)
    \/ \E r \in Reqs : ListPoemsAnswered(r)

SpecOwn == InitPoems /\ [][NextOwn]_vars

\* Navigation at adjacent indices: over a collection that no request
\* changes, r1 asks for the poem at an index and then r2, with the same
\* filters, for the poem at the index after it.
InitNav ==
    /\ allowedUserIds = {}
    /\ allowlist = {}
    /\ poems \in PoemStores
    /\ req = [r \in Racers |-> IdleReq]
    /\ lastSnapshot = <<>>
    /\ errors = 0
    /\ everNonEmpty = FALSE

\* a request for /getPoem arrives
ArriveNav(r) ==
    /\ req[r].pc = "idle"
    /\ \E i \in 0..(MaxIndex - 1), f \in BoolStrings, s \in {"true", Undefined} :
         /\ r = "r2" => /\ req["r1"].pc = "done"
                        /\ req["r1"].index = <<Digits[i + 1]>>
                        /\ req["r1"].favoritesOnly = f
                        /\ req["r1"].sortByDate = s
         /\ req' = [req EXCEPT ![r] =
                [IdleReq EXCEPT !.pc = "auth", !.path = "/getPoem",
                                !.authorization = <<"Bearer ", "t1">>,
                                !.index = IF r = "r2" THEN <<Digits[i + 2]>> ELSE <<Digits[i + 1]>>,
                                !.favoritesOnly = f, !.sortByDate = s]]
    /\ UNCHANGED <<allowedUserIds, allowlist, poems, lastSnapshot, errors, everNonEmpty>>

NextNav ==
    \/ \E r \in Racers : ArriveNav(r)
    \/ \E r \in Racers : AuthenticateStart(r)
    \/ \E r \in Racers : AuthenticateResume(r)
    \/ \E r \in Racers : GetPoemStart(r)
    \/ \E r \in Racers : GetPoemAnswered(r)

SpecNav == InitNav /\ [][NextNav]_vars

\* The admin's additions and their way into the cache: the collection holds
\* at most the admin's entry, one request at a time goes through
\* authenticate to the admin handlers, and the subscription delivers every
\* change of the collection, error events in between notwithstanding.
DeliveryStores == { c \in AdminStores : \A d \in c : d.uid = ADMIN_UID }

InitDelivery ==
    /\ allowedUserIds = {}
    /\ allowlist \in DeliveryStores
    /\ poems = <<>>
    /\ req = [r \in Reqs |-> IdleReq]
    /\ lastSnapshot = <<>>
    /\ errors = 0
    /\ everNonEmpty = FALSE

NextDelivery ==
    \/ OnSnapshot
    \/ OnSnapshotError
    \/ \E r \in Reqs : ArriveAdmin(r)
    \/ \E r \in Reqs : AuthenticateStart(r)
    \/ \E r \in Reqs : AuthenticateResume(r)
    \/ \E r \in Reqs : GetUsersStart(r)
    \/ \E r \in Reqs : GetUsersRead(r)
    \/ \E r \in Reqs : GetUsersListed(r)
    \/ \E r \in Reqs : AddUserStart(r)
    \/ \E r \in Reqs : AddUserChecked(r)
    \/ \E r \in Reqs : AddUserAdded(r)
    \/ \E r \in Reqs : Retire(r)

SpecDelivery == InitDelivery /\ [][NextDelivery]_vars /\ WF_vars(OnSnapshot)

\* The settings handlers, one request on any collection: the allowlist
\* documents carry the settings of their user (the other specifications
\* leave those fields out), a subject may have no document, and two
\* documents may carry the same uid.
SettingsDocs ==
    [id : {"d1"}, uid : Subjects, geminiApiKey : {"k1", "", Undefined},
     timezone : {"tz1", Undefined}, themeMode : {Undefined}, penName : {"pen1", Undefined},
     webDisplayPoem : {Undefined}]

OtherDocs ==
    { [id |-> "d2", uid |-> u, geminiApiKey |-> "k1", timezone |-> Undefined,
       themeMode |-> "dark", penName |-> Undefined, webDisplayPoem |-> Undefined] :
      u \in Subjects }

SettingsStores ==
    { a \cup b : a \in {{}} \cup { {d} : d \in SettingsDocs },
                 b \in {{}} \cup { {d} : d \in OtherDocs } }

\* the settings objects a request sends: each of the four fields and uid
\* sent or not
SentSettings ==
    { [f \in S |-> CASE f = "geminiApiKey" -> "k2"
                     [] f = "timezone"     -> "tz2"
                     [] f = "themeMode"    -> "light"
                     [] f = "penName"      -> "pen2"
                     [] OTHER              -> "u2"] :
        S \in SUBSET (SettingsFields \cup {"uid"}) }

SettingsInputs ==
    { [kind |-> "missing"], [kind |-> "string"] }
      \cup { [kind |-> "object", object |-> o] : o \in SentSettings }

InitSettings ==
    /\ allowedUserIds = {}
    /\ allowlist \in SettingsStores
    /\ poems = <<>>
    /\ req = [r \in Reqs |-> IdleReq]
    /\ lastSnapshot = <<>>
    /\ errors = 0
    /\ everNonEmpty = FALSE

\* a request for /get-settings or /update-settings arrives
ArriveSettings(r) ==
    /\ req[r].pc = "idle"
    /\ \/ req' = [req EXCEPT ![r] =
                   [IdleReq EXCEPT !.pc = "auth", !.path = "/get-settings",
                                   !.authorization = <<"Bearer ", "t1">>]]
       \/ \E st \in SettingsInputs :
            req' = [req EXCEPT ![r] =
                   [IdleReq EXCEPT !.pc = "auth", !.path = "/update-settings",
                                   !.authorization = <<"Bearer ", "t1">>, !.settings = st]]
    /\ UNCHANGED <<allowedUserIds, allowlist, poems, lastSnapshot, errors, everNonEmpty>>

NextSettings ==
    \/ \E r \in Reqs : ArriveSettings(r)
    \/ \E r \in Reqs : AuthenticateStart(r)
    \/ \E r \in Reqs : AuthenticateResume(r)
    \/ \E r \in Reqs : GetSettingsStart(r)
    \/ \E r \in Reqs : GetSettingsAnswered(r)
    \/ \E r \in Reqs : UpdateSettingsStart(r)
    \/ \E r \in Reqs : UpdateSettingsFound(r)
    \/ \E r \in Reqs : UpdateSettingsUpdated(r)

SpecSettings == InitSettings /\ [][NextSettings]_vars

\* The operations open to every subject, one request after another:
\* settings update, pinned-item update, favorite-toggle, delete and
\* generate, on collections of allowlist documents with and without a key.
FrameStores ==
    { c \in SettingsStores :
        \A d \in c : d.timezone = Undefined /\ d.penName = Undefined /\ d.geminiApiKey # "" }

\* the settings sent: not an object, or some of uid and penName
FrameInputs ==
    { st \in SettingsInputs :
        st.kind = "object" => DOMAIN st.object \subseteq {"uid", "penName"} }

\* req.body.poemId: the id of a poem, or nothing
PoemIdInputs == {Undefined, "p1"}

InitFrame ==
    /\ allowedUserIds = {}
    /\ allowlist \in FrameStores
    /\ poems = <<>>
    /\ req = [r \in Reqs |-> IdleReq]
    /\ lastSnapshot = <<>>
    /\ errors = 0
    /\ everNonEmpty = FALSE

ArriveFrame(r) ==
    /\ req[r].pc = "idle"
    /\ \/ \E st \in FrameInputs :
            req' = [req EXCEPT ![r] =
                   [IdleReq EXCEPT !.pc = "auth", !.path = "/update-settings",
                                   !.authorization = <<"Bearer ", "t1">>, !.settings = st]]
       \/ \E id \in PoemIdInputs :
            req' = [req EXCEPT ![r] =
                   [IdleReq EXCEPT !.pc = "auth", !.path = "/set-web-display-poem",
                                   !.authorization = <<"Bearer ", "t1">>, !.poemId = id]]
       \/ \E id \in 1..MaxRaceItems, p \in {"/toggleFavorite", "/deletePoem"} :
            req' = [req EXCEPT ![r] =
                   [IdleReq EXCEPT !.pc = "auth", !.path = p,
                                   !.authorization = <<"Bearer ", "t1">>, !.id = id]]
       \/ \E u \in Subjects :
            /\ FreshId <= MaxRaceItems
            /\ req' = [req EXCEPT ![r] =
                   [IdleReq EXCEPT !.pc = "auth", !.path = "/generate-poem",
                                   !.userid = u, !.image = TRUE]]
    /\ UNCHANGED <<allowedUserIds, allowlist, poems, lastSnapshot, errors, everNonEmpty>>

NextFrame ==
    \/ \E r \in Reqs : ArriveFrame(r)
    \/ \E r \in Reqs : AuthenticateStart(r)
    \/ \E r \in Reqs : AuthenticateResume(r)
    \/ \E r \in Reqs : UpdateSettingsStart(r)
    \/ \E r \in Reqs : UpdateSettingsFound(r)
    \/ \E r \in Reqs : UpdateSettingsUpdated(r)
    \/ \E r \in Reqs : SetWebDisplayPoemStart(r)
    \/ \E r \in Reqs : SetWebDisplayPoemFound(r)
    \/ \E r \in Reqs : SetWebDisplayPoemUpdated(r)
    \/ \E r \in Reqs : ToggleFavoriteStart(r)
    \/ \E r \in Reqs : ToggleFavoriteFetched(r)
    \/ \E r \in Reqs : ToggleFavoriteUpdated(r)
    \/ \E r \in Reqs : DeletePoemStart(r)
    \/ \E r \in Reqs : DeletePoemFetched(r)
    \/ \E r \in Reqs : DeletePoemDeleted(r)
    \/ \E r \in Reqs : GeneratePoemStart(r)
    \/ \E r \in Reqs : GeneratePoemLookup(r)
    \/ \E r \in Reqs : GeneratePoemGenerated(r)
    \/ \E r \in Reqs : GeneratePoemSave(r)
    \/ \E r \in Reqs : Retire(r)

SpecFrame == InitFrame /\ [][NextFrame]_vars

----------------------------------------------------------------------------
(* Properties of the Authenticator *)

\* the fixed list of paths that bypass authenticate
BypassList == {"/", "/favicon.ico", "/generate-poem", "/public/getPoem", "/public/getWebDisplayPoem"}

\* a request on a standard protected route
Standard(q) == q.pc # "idle" /\ q.path \notin BypassList

\* a request on the dual-auth route
DualAuth(q) == q.pc # "idle" /\ q.path = "/generate-poem"

\* authenticate has read the cache for q and found the set S
Saw(q) == q.seen[1]

DeniedBody == "Access denied: User not on allowlist"

\* C1: on a standard protected route, a token that verifies to a subject
\* missing from a non-empty cache (as the cache stands when it is checked) is
\* answered 403 'Access denied' by authenticate; next() is never called and
\* no route handler runs.
C1_NonMemberDenied ==
    \A r \in Reqs :
        LET q == req[r] IN
        (/\ Standard(q)
         /\ q.decoded.verdict = "ok"
         /\ q.seen # <<>>
         /\ Saw(q) # {}
         /\ q.decoded.uid \notin Saw(q))
        => (/\ q.pc = "done"
            /\ q.status = 403
            /\ q.error = DeniedBody
            /\ q.responder = "authenticate"
            /\ q.responses = 1
            /\ q.nextCalls = 0
            /\ ~q.handled)

C1_Witness ==
    \E r \in Reqs :
        /\ Standard(req[r])
        /\ req[r].decoded.verdict = "ok"
        /\ req[r].seen # <<>>
        /\ Saw(req[r]) # {}
        /\ req[r].decoded.uid \notin Saw(req[r])
        /\ req[r].status = 403

\* C2: on /generate-poem, a token that verifies to a subject missing from
\* the non-empty cache is answered 403, and the handler goes no further (no
\* settings lookup, hence no generative call and no poem write).
C2_DualAuthTokenDenied ==
    [][\A r \in Reqs :
          (/\ req[r].pc = "gen_verify"
           /\ req'[r].pc # "gen_verify"
           /\ req'[r].decoded.verdict = "ok"
           /\ allowedUserIds # {}
           /\ req'[r].decoded.uid \notin allowedUserIds)
          => (/\ req'[r].status = 403
              /\ req'[r].pc = "done"
              /\ req'[r].lookups = 0
              /\ req'[r].genCalls = 0
              /\ req'[r].poemWrites = 0)]_vars

\* C3: on a standard protected route, a token that verifies to a member of
\* the cache makes authenticate call next() exactly once and send nothing,
\* with req.user = {uid, email} of the decoded token.
C3_MemberProceeds ==
    \A r \in Reqs :
        LET q == req[r] IN
        (/\ Standard(q)
         /\ q.decoded.verdict = "ok"
         /\ q.seen # <<>>
         /\ q.decoded.uid \in Saw(q))
        => (/\ q.nextCalls = 1
            /\ q.responder # "authenticate"
            /\ (q.pc = "route" => q.responses = 0 /\ q.status = 0)
            /\ q.pc \in {"route", "done"}
            /\ q.user = <<[uid |-> q.decoded.uid, email |-> q.decoded.email]>>)

C3_Witness ==
    \E r \in Reqs :
        /\ Standard(req[r])
        /\ req[r].decoded.verdict = "ok"
        /\ req[r].seen # <<>>
        /\ req[r].decoded.uid \in Saw(req[r])
        /\ req[r].decoded.email # Undefined
        /\ req[r].pc = "route"

\* C4: while the cache is the empty set, every subject whose token verifies
\* passes authenticate on a standard protected route.
C4_EmptyCachePermitsAll ==
    \A r \in Reqs :
        LET q == req[r] IN
        (/\ Standard(q)
         /\ q.decoded.verdict = "ok"
         /\ q.seen = <<{}>>)
        => (/\ q.nextCalls = 1
            /\ q.responder # "authenticate"
            /\ q.status # 403
            /\ q.pc \in {"route", "done"})

C4_Witness ==
    \E r \in Reqs :
        /\ Standard(req[r])
        /\ req[r].decoded.verdict = "ok"
        /\ req[r].seen = <<{}>>
        /\ req[r].pc = "route"
        /\ allowlist # {}

\* C5: on a standard protected route, an Authorization header that is absent
\* or does not start with 'Bearer ' is answered 401 'missing or invalid
\* token'; the verifier is not called, the cache is not read, req.user is not
\* set and next() is not called.
C5_MissingHeaderRejected ==
    \A r \in Reqs :
        LET q == req[r] IN
        (/\ Standard(q)
         /\ q.pc # "auth"
         /\ (q.authorization = <<>> \/ q.authorization[1] # "Bearer "))
        => (/\ q.pc = "done"
            /\ q.status = 401
            /\ q.error = "Authentication required: Missing or invalid token"
            /\ q.responder = "authenticate"
            /\ q.verifyCalls = 0
            /\ q.decoded.verdict = "none"
            /\ q.cacheReads = 0
            /\ q.seen = <<>>
            /\ q.user = <<>>
            /\ q.nextCalls = 0
            /\ ~q.handled)

C5_Witness ==
    \E r \in Reqs :
        /\ Standard(req[r])
        /\ req[r].authorization # <<>>
        /\ req[r].authorization[1] # "Bearer "
        /\ req[r].status = 401
        /\ allowedUserIds # {}

\* C6: when the verifier fails, authenticate answers 401 and never calls
\* next(); the expired failure gets the body with code TOKEN_EXPIRED, every
\* other failure the generic invalid-token body without a code.
C6_VerifierFailureRejected ==
    \A r \in Reqs :
        LET q == req[r] IN
        (/\ Standard(q)
         /\ q.decoded.verdict = "fail")
        => (/\ q.pc = "done"
            /\ q.status = 401
            /\ q.responder = "authenticate"
            /\ q.responses = 1
            /\ q.nextCalls = 0
            /\ ~q.handled
            /\ (q.decoded.code = "auth/id-token-expired"
                  => q.code = "TOKEN_EXPIRED" /\ q.error = "Token expired")
            /\ (q.decoded.code # "auth/id-token-expired"
                  => q.code = Undefined /\ q.error = "Invalid authentication token"))

C6_Witness ==
    \E r \in Reqs :
        /\ Standard(req[r])
        /\ req[r].decoded.verdict = "fail"
        /\ req[r].decoded.code = "auth/id-token-expired"
        /\ req[r].code = "TOKEN_EXPIRED"

\* C7: for a path of the public-path list authenticate calls next() at once:
\* when it has returned, next() was called once, nothing was sent, and the
\* header was not inspected, the verifier not called, the cache not read and
\* req.user not set, whatever the request carries and the cache holds.
C7_PublicPathBypass ==
    \A r \in Reqs :
        LET q == req[r] IN
        (q.pc \notin {"idle", "auth"} /\ q.path \in BypassList)
        => (/\ q.pc # "auth_verify"
            /\ q.nextCalls = 1
            /\ q.responder # "authenticate"
            /\ q.user = <<>>
            /\ (q.pc = "route"
                  => (/\ q.headerReads = 0
                      /\ q.verifyCalls = 0
                      /\ q.cacheReads = 0
                      /\ q.seen = <<>>
                      /\ q.decoded.verdict = "none"
                      /\ q.responses = 0)))

C7_Witness ==
    \E r \in Reqs :
        /\ req[r].pc = "route"
        /\ req[r].path = "/generate-poem"
        /\ req[r].authorization = <<"Bearer ", "t1">>
        /\ allowedUserIds # {}

\* the parameter path of /generate-poem was taken for q: an image, no
\* verified token, a non-empty userid parameter, and the handler is past the
\* verifier
OnParamPath(q) ==
    /\ DualAuth(q)
    /\ q.image
    /\ q.decoded.verdict # "ok"
    /\ q.userid # Undefined /\ q.userid # ""
    /\ q.pc \notin {"auth", "route", "gen_verify"}

\* C8: on /generate-poem a failed token verification does not reject: with a
\* userid parameter the flow goes on to the parameter path, which tests the
\* parameter against the cache, and when it passes the request proceeds with
\* the parameter value as the subject.
C8_FailedTokenFallsThrough ==
    \A r \in Reqs :
        LET q == req[r] IN
        (OnParamPath(q) /\ q.decoded.verdict = "fail")
        => (/\ q.seen # <<>>
            /\ q.userId = q.userid
            /\ q.error # "Invalid authentication token"
            /\ ((Saw(q) = {} \/ q.userid \in Saw(q))
                  => (/\ q.status \notin {401, 403}
                      /\ q.lookups = 1
                      /\ q.tier = "param")))

C8_Witness ==
    \E r \in Reqs :
        /\ OnParamPath(req[r])
        /\ req[r].decoded.verdict = "fail"
        /\ Saw(req[r]) # {}
        /\ req[r].userid \in Saw(req[r])
        /\ req[r].pc = "gen_generate"

\* no bearer token of q verified and q carries no userid parameter, and the
\* handler has got past its authentication
NoCredential(q) ==
    /\ DualAuth(q)
    /\ q.handled
    /\ q.pc # "gen_verify"
    /\ q.decoded.verdict # "ok"
    /\ q.userid = Undefined

\* C9 as stated: on /generate-poem, no verified token and no userid
\* parameter end in 401 'authentication required' with no settings lookup,
\* no generative call and no poem write.
C9_Original ==
    \A r \in Reqs :
        LET q == req[r] IN
        NoCredential(q)
        => (/\ q.pc = "done"
            /\ q.status = 401
            /\ q.error = "Authentication required: Missing token or userid"
            /\ q.lookups = 0
            /\ q.genCalls = 0
            /\ q.poemWrites = 0)

\* C9 amended: the same for every request that carries an image (the image
\* test comes first and answers 400 without one).
C9_NoCredentialRejected ==
    \A r \in Reqs :
        LET q == req[r] IN
        (NoCredential(q) /\ q.image)
        => (/\ q.pc = "done"
            /\ q.status = 401
            /\ q.error = "Authentication required: Missing token or userid"
            /\ q.responder = "generatePoem"
            /\ q.lookups = 0
            /\ q.genCalls = 0
            /\ q.poemWrites = 0)

C9_Witness ==
    \E r \in Reqs :
        /\ NoCredential(req[r])
        /\ req[r].image
        /\ req[r].decoded.verdict = "fail"
        /\ req[r].status = 401

\* C10: on the parameter path of /generate-poem the userid parameter becomes
\* the subject only through the allowlist test: a userid missing from a
\* non-empty cache is answered 403 with no lookup, generative call or poem
\* write; with an empty cache any userid is accepted.
C10_ParamAllowlistChecked ==
    \A r \in Reqs :
        LET q == req[r] IN
        OnParamPath(q)
        => (/\ q.seen # <<>>
            /\ q.cacheReads = 1
            /\ ((Saw(q) # {} /\ q.userid \notin Saw(q))
                  => (/\ q.pc = "done"
                      /\ q.status = 403
                      /\ q.error = DeniedBody
                      /\ q.lookups = 0
                      /\ q.genCalls = 0
                      /\ q.poemWrites = 0))
            /\ (Saw(q) = {}
                  => (/\ q.status # 403
                      /\ q.userId = q.userid
                      /\ q.lookups = 1)))

C10_Witness ==
    \E r \in Reqs :
        /\ OnParamPath(req[r])
        /\ Saw(req[r]) # {}
        /\ req[r].userid \notin Saw(req[r])
        /\ req[r].status = 403

\* a request the dual-auth route has accepted: its subject is resolved and
\* the handler is past the 401/403 tests
Accepted(q) == DualAuth(q) /\ q.pc \in {"gen_lookup", "gen_generate", "gen_save"}

\* C11: whenever /generate-poem accepts a request, the resolved auth context
\* is attached to the request (req.user carries the resolved subject), so
\* that later code of the same request can tell how it was authorized.
C11_AuthContextAttached ==
    \A r \in Reqs :
        Accepted(req[r])
        => (/\ req[r].user # <<>>
            /\ req[r].user[1].uid = req[r].userId)

----------------------------------------------------------------------------
(* Properties of the allowlist cache *)

\* the non-empty uid values of a snapshot
UidsOf(snapshot) == { d.uid : d \in { x \in snapshot : x.uid # Undefined /\ x.uid # "" } }

\* the set a reader must find: empty before the first delivery, afterwards
\* the uids of the snapshot delivered last
InstalledSet == IF lastSnapshot = <<>> THEN {} ELSE UidsOf(lastSnapshot[1])

\* C12: in every state the cache is the empty initial set or exactly the
\* non-empty uids of one complete delivered snapshot (the last one), and
\* whenever a request reads the cache it finds that set: never a mix of two
\* snapshots, never a part of one.
C12_CacheIsOneSnapshot ==
    /\ [](allowedUserIds = InstalledSet)
    /\ [][\A r \in Reqs :
            (req'[r].seen # req[r].seen /\ req'[r].seen # <<>>)
            => req'[r].seen = <<InstalledSet>>]_vars

C12_Witness ==
    /\ lastSnapshot # <<>>
    /\ \E d \in lastSnapshot[1] : d.uid = Undefined
    /\ allowedUserIds = {"u2"}
    /\ \E r \in Reqs : req[r].seen = <<{"u1"}>>

\* C13: a subscription error event changes neither the cache nor what was
\* delivered last; after any number of error events the cache still is the
\* set installed by the last delivered snapshot (or the empty initial set).
C13_ErrorKeepsCache ==
    /\ [][errors' # errors
            => (allowedUserIds' = allowedUserIds /\ lastSnapshot' = lastSnapshot)]_vars
    /\ [](errors > 0 => allowedUserIds = InstalledSet)

C13_Witness ==
    /\ errors >= 2
    /\ allowedUserIds = {"u1", "u2"}

----------------------------------------------------------------------------
(* Navigation: the reference the claims are stated against *)

\* y stands ahead of x: favorites first then newest first, or newest first
Ahead(y, x, dateOnly) ==
    IF dateOnly
    THEN y.timestamp > x.timestamp
    ELSE \/ y.isFavorite /\ ~x.isFavorite
         \/ y.isFavorite = x.isFavorite /\ y.timestamp > x.timestamp

\* the owner's items, the favorites only when asked for
Matching(owner, favOnly) ==
    { x \in DocsOf(poems) : x.userId = owner /\ (favOnly => x.isFavorite) }

\* the items at position p (from 0) of the owner's sequence: one or none
AtPosition(owner, favOnly, dateOnly, p) ==
    LET M == Matching(owner, favOnly)
    IN  { x \in M : Cardinality({ y \in M : Ahead(y, x, dateOnly) }) = p }

\* the item at position p annotated with p, <<>> (null) past the end
ItemAt(owner, favOnly, dateOnly, p) ==
    IF AtPosition(owner, favOnly, dateOnly, p) = {} THEN <<>>
    ELSE LET x == CHOOSE y \in AtPosition(owner, favOnly, dateOnly, p) : TRUE
         IN  <<[id |-> x.id, userId |-> x.userId, isFavorite |-> x.isFavorite,
                timestamp |-> x.timestamp, index |-> p]>>

\* the request sent its index as one decimal digit
OneDigit(s) == Len(s) = 1 /\ IsDigit(s[1])

\* the authenticated navigation handler answered request q
Navigated(q) == q.responder = "getPoem" /\ q.pc = "done"

Owner(q) == q.user[1].uid

FavOnly(q) == q.favoritesOnly = "true"

DateOnly(q) == q.sortByDate = "true"

\* C14: for every owner, ordering, favoritesOnly setting and index >= 1 the
\* navigation handler issues one range query with offset index-1 and size 3
\* and answers next = the item at position index-1, current = the item at
\* position index, previous = the item at position index+1 of the owner's
\* ordered and filtered sequence, each annotated with its position, and null
\* for the positions past the end.
C14_WindowAroundIndex ==
    \A r \in Reqs :
      LET q == req[r] IN
      (Navigated(q) /\ OneDigit(q.index) /\ q.index # <<"0">>) =>
        LET i == DigitVal(q.index[1]) IN
          /\ q.queries = 1
          /\ q.plan.offset = i - 1
          /\ q.plan.limitVal = 3
          /\ q.status = 200
          /\ q.nextPoem = ItemAt(Owner(q), FavOnly(q), DateOnly(q), i - 1)
          /\ q.currentPoem = ItemAt(Owner(q), FavOnly(q), DateOnly(q), i)
          /\ q.previousPoem = ItemAt(Owner(q), FavOnly(q), DateOnly(q), i + 1)

C14_Witness ==
    \E r \in Reqs :
      /\ Navigated(req[r]) /\ OneDigit(req[r].index) /\ req[r].index # <<"0">>
      /\ req[r].nextPoem # <<>> /\ req[r].currentPoem # <<>> /\ req[r].previousPoem # <<>>

\* C15: for index 0 the navigation handler queries offset 0 with size 2 and
\* answers current = the first item of the active ordering annotated 0,
\* previous = the second item annotated 1 (null when there is only one),
\* and next = null, whatever the collection holds.
C15_IndexZero ==
    \A r \in Reqs :
      LET q == req[r] IN
      (Navigated(q) /\ q.index = <<"0">>) =>
          /\ q.queries = 1
          /\ q.plan.offset = 0
          /\ q.plan.limitVal = 2
          /\ q.status = 200
          /\ q.currentPoem = ItemAt(Owner(q), FavOnly(q), DateOnly(q), 0)
          /\ q.previousPoem = ItemAt(Owner(q), FavOnly(q), DateOnly(q), 1)
          /\ q.nextPoem = <<>>

C15_Witness ==
    \E r \in Reqs :
      /\ Navigated(req[r]) /\ req[r].index = <<"0">>
      /\ req[r].currentPoem # <<>> /\ req[r].previousPoem # <<>>
      /\ Cardinality(Matching(Owner(req[r]), FavOnly(req[r]))) = 3

\* the rows the window of an answered navigation request holds: the owner's
\* items from the offset on, at most the size of the window
RowCount(q) ==
    LET n    == Cardinality(Matching(q.userId, FavOnly(q)))
        left == IF n > q.plan.offset THEN n - q.plan.offset ELSE 0
    IN  IF left < q.plan.limitVal THEN left ELSE q.plan.limitVal

\* C16: when the window query returns no rows (no matching items, or an
\* index more than one position past the end) the navigation handler
\* answers currentPoem, nextPoem and previousPoem all null with a success
\* status and no error; when it returns fewer rows than the window size,
\* exactly the slots whose rows are absent are null.
C16_AbsentRowsAreNull ==
    \A r \in Reqs :
      LET q == req[r] IN
      Navigated(q) =>
          /\ q.status = 200 /\ q.error = Undefined
          /\ RowCount(q) = 0 =>
               q.currentPoem = <<>> /\ q.nextPoem = <<>> /\ q.previousPoem = <<>>
          /\ q.plan.index = 0 =>
               /\ (q.currentPoem = <<>>) = (RowCount(q) < 1)
               /\ (q.previousPoem = <<>>) = (RowCount(q) < 2)
          /\ q.plan.index > 0 =>
               /\ (q.nextPoem = <<>>) = (RowCount(q) < 1)
               /\ (q.currentPoem = <<>>) = (RowCount(q) < 2)
               /\ (q.previousPoem = <<>>) = (RowCount(q) < 3)

C16_Witness ==
    \E r \in Reqs :
      /\ Navigated(req[r])
      /\ Matching(req[r].userId, FavOnly(req[r])) # {}
      /\ RowCount(req[r]) = 0
      /\ req[r].currentPoem = <<>> /\ req[r].nextPoem = <<>> /\ req[r].previousPoem = <<>>

\* the index parameter is absent
Missing(s) == s = <<>>

\* the parameter is not a number: a character that is neither a digit, a
\* sign nor a blank, or no digit at all
NonNumeric(s) ==
    \/ \E i \in 1..Len(s) : ~IsDigit(s[i]) /\ s[i] \notin {"-", "+", " "}
    \/ \A i \in 1..Len(s) : ~IsDigit(s[i])

\* the parameter is a number below zero
Negative(s) == s # <<>> /\ s[1] = "-"

\* a navigation handler computed the window of request q
Planned(q) == q.path \in {"/getPoem", "/public/getPoem"} /\ q.queries > 0

\* the indexes the answer of q is annotated with
Annotations(q) ==
    { q.currentPoem[k].index : k \in DOMAIN q.currentPoem }
      \cup { q.nextPoem[k].index : k \in DOMAIN q.nextPoem }
      \cup { q.previousPoem[k].index : k \in DOMAIN q.previousPoem }

\* C17: the navigation handlers normalize the index before computing the
\* window: a missing, non-numeric or negative index is treated as 0, the
\* offset is never negative and no item is annotated with a negative index.
C17_IndexNormalized ==
    \A r \in Reqs :
      LET q == req[r] IN
      Planned(q) =>
          /\ (Missing(q.index) \/ NonNumeric(q.index) \/ Negative(q.index)) =>
               q.plan.index = 0 /\ q.plan.offset = 0
          /\ q.plan.offset >= 0
          /\ \A a \in Annotations(q) : a >= 0

\* what the authenticated handler answers to the query parameters of q for
\* the subject owner
AuthenticatedAnswer(q, owner) ==
    LET plan == GetPoemPlan(q)
    IN  GetPoemBody(plan.index,
                    RunQuery(poems, owner, plan.favoritesOnly, plan.sortByDate,
                             plan.offset, plan.limitVal))

\* what the public handler answers to the query parameters of q for the
\* userid parameter owner
PublicAnswer(q, owner) ==
    LET plan == GetPublicPoemPlan(q)
    IN  GetPublicPoemBody(plan.index,
                          RunQuery(poems, owner, plan.favoritesOnly, plan.sortByDate,
                                   plan.offset, plan.limitVal))

Triple(q) ==
    [currentPoem |-> q.currentPoem, nextPoem |-> q.nextPoem, previousPoem |-> q.previousPoem]

\* C18: the authenticated and the public navigation handler are the same
\* function of (ownerId, index, favoritesOnly, sortByDate) over the same
\* collection: what one answers for a non-empty ownerId is what the other
\* answers for it; the public one takes ownerId from the userid parameter
\* and rejects the request with 400, without a query, when it is missing.
C18_SameNavigator ==
    \A r \in Reqs :
      LET q == req[r] IN
        /\ (q.responder = "getPublicPoem" /\ q.status = 200) =>
              /\ Truthy(q.userid)
              /\ Triple(q) = AuthenticatedAnswer(q, q.userid)
        /\ (q.responder = "getPoem" /\ q.status = 200) =>
              Triple(q) = PublicAnswer(q, Owner(q))
        /\ (q.path = "/public/getPoem" /\ q.handled /\ ~Truthy(q.userid)) =>
              q.status = 400 /\ q.queries = 0

C18_Witness ==
    \E r \in Reqs :
      /\ req[r].responder = "getPublicPoem" /\ req[r].status = 200
      /\ FavOnly(req[r])
      /\ req[r].currentPoem # <<>>
      /\ \E x \in DocsOf(poems) : x.userId = req[r].userid /\ ~x.isFavorite

\* the item a delete request names, as it is stored
Named(q) == { x \in DocsOf(poems) : x.id = q.id }

\* C20: a delete request for an existing item of another owner than the
\* caller's verified subject returns 403 and deletes nothing, the item and
\* every other item staying as they are; a delete by the owner removes
\* exactly that item and returns success.
C20_OwnedDelete ==
    [][\A r \in Reqs :
         LET q == req[r] IN
         /\ (q.pc = "deletePoem_get" /\ \E x \in Named(q) : x.userId # Owner(q)) =>
               /\ req'[r].status = 403
               /\ req'[r].pc = "done"
               /\ req'[r].deletes = 0
               /\ poems' = poems
         /\ (q.pc = "deletePoem_get" /\ \E x \in Named(q) : x.userId = Owner(q)) =>
               /\ req'[r].pc = "deletePoem_delete"
               /\ poems' = poems
         /\ q.pc = "deletePoem_delete" =>
               /\ req'[r].status = 200
               /\ req'[r].pc = "done"
               /\ Len(poems') = Len(poems) - Cardinality(Named(q))
               /\ \A i \in DOMAIN poems' : poems'[i].id # q.id
               /\ \A x \in DocsOf(poems) \ Named(q) : \E i \in DOMAIN poems' : poems'[i] = x
         \* an item leaves the collection only by its owner's delete
         /\ (\E x \in DocsOf(poems) : \A i \in DOMAIN poems' : poems'[i].id # x.id)
               => q.pc = "deletePoem_delete" /\ \E x \in Named(q) : x.userId = Owner(q)
      ]_vars

C20_Witness ==
    \E r \in Reqs :
      /\ req[r].responder = "deletePoem" /\ req[r].status = 403
      /\ req[r].deletes = 0
      /\ \E x \in Named(req[r]) : x.userId # Owner(req[r])
      /\ Len(poems) > 1

\* the page the listing has to serve for the page parameter s: 1 when it is
\* missing, not a number or below 1
AskedPage(s) ==
    IF Missing(s) \/ NonNumeric(s) \/ Negative(s) THEN 1
    ELSE LET digits == SelectSeq(s, IsDigit)
             n      == ParseDigits(digits, 1, 0)
         IN  IF n < 1 THEN 1 ELSE n

\* the items at positions from..to (from 0) of the owner's whole sequence
Positions(owner, dateOnly, from, to) ==
    LET M    == Matching(owner, FALSE)
        n    == Cardinality(M)
        last == IF to < n - 1 THEN to ELSE n - 1
    IN  [k \in 1..(IF last >= from THEN last - from + 1 ELSE 0) |->
           CHOOSE x \in M :
             Cardinality({ y \in M : Ahead(y, x, dateOnly) }) = from + k - 1]

\* what the listing answers to page parameter s
ListedPage(owner, s, sortByDate) ==
    LET plan == ListPoemsPlan([page |-> s, sortByDate |-> sortByDate])
    IN  RunQuery(poems, owner, plan.favoritesOnly, plan.sortByDate, plan.offset, plan.limitVal)

\* C19: the paged listing takes a missing, non-numeric or less-than-1 page
\* as page 1 and answers page p with exactly the items at positions
\* (p-1)*50 .. p*50-1 of the caller's sequence under the selected ordering,
\* in order; over an unchanged collection consecutive pages are disjoint
\* and together cover the sequence.
C19_PagedListing ==
    \A r \in Reqs :
      LET q == req[r] IN
      (q.responder = "listPoems" /\ q.pc = "done") =>
        /\ q.status = 200
        /\ q.plan.index = AskedPage(q.page)
        /\ q.docs = Positions(Owner(q), DateOnly(q),
                              (AskedPage(q.page) - 1) * 50, AskedPage(q.page) * 50 - 1)
        /\ LET one == ListedPage(Owner(q), <<"1">>, q.sortByDate)
               two == ListedPage(Owner(q), <<"2">>, q.sortByDate)
           IN  /\ \A i \in DOMAIN one, j \in DOMAIN two : one[i] # two[j]
               /\ Len(one) + Len(two) = Cardinality(Matching(Owner(q), FALSE))
               /\ { (one \o two)[i] : i \in DOMAIN (one \o two) } = Matching(Owner(q), FALSE)

----------------------------------------------------------------------------
(* Generation: the response and the poem write *)

\* what the caller of request q was sent
Sent(q) == <<q.status, q.error, q.code, q.responder, q.responses>>

\* C25: in the generation flow the success response is sent before the
\* poem write is attempted, and a failure of that write is swallowed: the
\* caller's response is the same success whether the write succeeds or
\* fails, and no second response is sent.
C25_SaveAfterResponse ==
    /\ [](\A r \in Reqs :
            req[r].poemWrites > 0 =>
              /\ req[r].status = 200
              /\ req[r].responder = "generatePoem"
              /\ req[r].responses = 1)
    /\ [][\A r \in Reqs :
            (req[r].pc = "gen_save" /\ req'[r] # req[r]) =>
              /\ Sent(req'[r]) = Sent(req[r])
              /\ req'[r].pc = "done"
              /\ \/ poems' = poems
                 \/ /\ Len(poems') = Len(poems) + 1
                    /\ SubSeq(poems', 1, Len(poems)) = poems
                    /\ poems'[Len(poems')].userId = req[r].userId]_vars

C25_Witness ==
    \E r \in Reqs :
      /\ req[r].pc = "done"
      /\ req[r].poemWrites = 1
      /\ req[r].status = 200 /\ req[r].responses = 1
      /\ poems = <<>>

----------------------------------------------------------------------------
(* The allowlist gate after the cache was emptied *)

\* C30: the fail-open rule looks at the current size of the cached set
\* only: after the cache has held a non-empty set, a snapshot with no entry
\* that has a uid makes the set empty again, and while it is empty every
\* subject the verifier accepts passes the allowlist gate.
C30_FailOpenAgain ==
    /\ []((everNonEmpty /\ lastSnapshot # <<>> /\ UidsOf(lastSnapshot[1]) = {})
            => allowedUserIds = {})
    /\ [][\A r \in Reqs :
            (/\ everNonEmpty
             /\ allowedUserIds = {}
             /\ req[r].pc = "auth_verify"
             /\ req'[r].decoded.verdict = "ok") =>
               /\ req'[r].pc = "route"
               /\ req'[r].nextCalls = 1
               /\ req'[r].status = 0]_vars

C30_Witness ==
    /\ everNonEmpty
    /\ allowedUserIds = {}
    /\ lastSnapshot # <<>>
    /\ \E d \in lastSnapshot[1] : d.uid = Undefined
    /\ \E r \in Reqs :
         /\ req[r].decoded.verdict = "ok"
         /\ req[r].seen = <<{}>>
         /\ req[r].nextCalls = 1

----------------------------------------------------------------------------
(* The owned-mutation guard *)

\* request q went to the favorite-toggle or to the delete handler
Mutating(q) == q.handled /\ q.path \in {"/toggleFavorite", "/deletePoem"}

\* the datastore writes request q has issued
Writes(q) == q.updates + q.deletes

\* request q waits for the item it fetched by id
Fetching(q) == q.pc \in {"toggleFavorite_get", "deletePoem_get"}

\* request q waits for the write it issued
Writing(q) == q.pc \in {"toggleFavorite_update", "deletePoem_delete"}

\* C21: favorite-toggle and delete evaluate the checks of the guard in one
\* order: a missing id gives 400 before any datastore read; an id with no
\* stored item gives 404 before the ownership comparison; an owner mismatch
\* gives 403; a write is issued only after all three pass, and on 400, 404
\* or 403 the datastore is left as it is.
C21_GuardOrder ==
    /\ [](\A r \in Reqs :
            LET q == req[r] IN
            Mutating(q) =>
              /\ q.id = 0 => (q.status = 400 /\ q.reads = 0 /\ Writes(q) = 0)
              /\ q.status \in {403, 404} => (q.id # 0 /\ q.reads = 1 /\ Writes(q) = 0)
              /\ Writes(q) > 0 => (q.id # 0 /\ q.reads = 1 /\ Writes(q) = 1))
    /\ [][\A r \in Reqs :
            LET q == req[r] IN
            /\ (Fetching(q) /\ Named(q) = {}) =>
                  (req'[r].status = 404 /\ req'[r].pc = "done")
            /\ (Fetching(q) /\ \E x \in Named(q) : x.userId # Owner(q)) =>
                  (req'[r].status = 403 /\ req'[r].pc = "done")
            /\ (Fetching(q) /\ \E x \in Named(q) : x.userId = Owner(q)) =>
                  (req'[r].status = 0 /\ Writing(req'[r]) /\ Writes(req'[r]) = 1)
            /\ (Mutating(req'[r]) /\ req'[r].status \in {400, 403, 404}) =>
                  poems' = poems]_vars

C21_Witness ==
    \E r \in Reqs :
      /\ req[r].responder = "toggleFavorite"
      /\ req[r].status = 404
      /\ req[r].reads = 1
      /\ \E x \in DocsOf(poems) : x.userId # Owner(req[r])

\* the boolean a favorite-toggle with this status has to write over the
\* value it read
Wanted(status, read) ==
    CASE status = Undefined -> ~read
      [] status \in {"TRUE", "'true'"} -> TRUE
      [] OTHER -> FALSE

\* C22: for an item owned by the caller, favorite-toggle with no status
\* writes the negation of the isFavorite value it read, and with a status
\* writes exactly that boolean whatever the value was; the response reports
\* the value written, and no field other than isFavorite and no other item
\* is changed.
C22_ToggleWrites ==
    [][\A r \in Reqs :
         LET q == req[r] IN
         /\ (q.pc = "toggleFavorite_get" /\ req'[r].pc = "toggleFavorite_update") =>
               /\ req'[r].poemData \in { <<x>> : x \in Named(q) }
               /\ req'[r].poemData[1].userId = Owner(q)
         /\ (q.pc = "toggleFavorite_update" /\ Named(q) # {}) =>
               LET b == Wanted(q.bodyStatus, q.poemData[1].isFavorite) IN
               /\ req'[r].status = 200
               /\ req'[r].isFavorite = <<b>>
               /\ Len(poems') = Len(poems)
               /\ \A i \in DOMAIN poems :
                    /\ poems'[i].id = poems[i].id
                    /\ poems'[i].userId = poems[i].userId
                    /\ poems'[i].timestamp = poems[i].timestamp
                    /\ poems'[i].isFavorite = IF poems[i].id = q.id THEN b
                                              ELSE poems[i].isFavorite
      ]_vars

C22_Witness ==
    \E r \in Reqs :
      /\ req[r].responder = "toggleFavorite" /\ req[r].status = 200
      /\ req[r].bodyStatus = "FALSE"
      /\ req[r].poemData # <<>> /\ req[r].poemData[1].isFavorite
      /\ req[r].isFavorite = <<FALSE>>
      /\ \E x \in Named(req[r]) : ~x.isFavorite
      /\ Len(poems) > 1

----------------------------------------------------------------------------
(* Concurrent mutations *)

\* request q is a no-status toggle that succeeded
Flipped(q) ==
    q.responder = "toggleFavorite" /\ q.status = 200 /\ q.bodyStatus = Undefined

\* two no-status toggles of the same item that read the same isFavorite
\* value have both completed
SameRead(a, b) ==
    /\ a # b
    /\ Flipped(req[a]) /\ Flipped(req[b])
    /\ req[a].id = req[b].id
    /\ req[a].poemData[1].isFavorite = req[b].poemData[1].isFavorite

\* C23: the read and the write of favorite-toggle are not atomic: two
\* concurrent no-status toggles by the owner on one item can both read the
\* same isFavorite value and both write its negation, and after both have
\* completed the flag has changed once, not twice.
C23_LostUpdate ==
    \A a \in Racers, b \in Racers :
      SameRead(a, b) =>
        /\ req[a].isFavorite = <<~req[a].poemData[1].isFavorite>>
        /\ req[b].isFavorite = req[a].isFavorite
        /\ \A x \in DocsOf(poems) :
             x.id = req[a].id => x.isFavorite = ~req[a].poemData[1].isFavorite

C23_Witness ==
    \E a \in Racers, b \in Racers :
      /\ SameRead(a, b)
      /\ Owner(req[a]) = Owner(req[b])
      /\ \E x \in DocsOf(poems) :
           /\ x.id = req[a].id
           /\ x.userId = Owner(req[a])
           /\ x.isFavorite = ~req[a].poemData[1].isFavorite

\* C24: under any interleaving of generate, toggle-favorite and delete
\* requests from any subjects, an item's ownerId stays what its creation
\* set, and every isFavorite change and every deletion that takes effect on
\* an item is the write of a request whose authenticated subject is the
\* item's ownerId.
C24_OwnerOnlyMutations ==
    /\ [](\A i \in DOMAIN poems, j \in DOMAIN poems : poems[i].id = poems[j].id => i = j)
    /\ [][\A x \in DocsOf(poems) :
            LET after == { y \in DocsOf(poems') : y.id = x.id } IN
            /\ \A y \in after : y.userId = x.userId
            /\ (after = {} \/ \E y \in after : y.isFavorite # x.isFavorite) =>
                 \E r \in Racers :
                   /\ Writing(req[r]) /\ req'[r].pc = "done"
                   /\ req[r].id = x.id
                   /\ req[r].user # <<>>
                   /\ req[r].decoded.verdict = "ok"
                   /\ req[r].user[1].uid = req[r].decoded.uid
                   /\ req[r].user[1].uid = x.userId]_vars
    /\ [][\A y \in DocsOf(poems') :
            (\A x \in DocsOf(poems) : x.id # y.id) =>
               \E r \in Racers : req[r].pc = "gen_save" /\ y.userId = req[r].userId]_vars

C24_Witness ==
    \E a \in Racers, b \in Racers :
      /\ req[a].responder = "toggleFavorite" /\ req[a].status = 200
      /\ req[b].responder = "deletePoem" /\ req[b].status = 403
      /\ req[a].id = req[b].id
      /\ req[a].id > MaxRaceItems
      /\ \E x \in DocsOf(poems) : x.id = req[a].id /\ x.userId = Owner(req[a])

----------------------------------------------------------------------------
(* Settings *)

\* the allowlist documents of the caller of request q
OwnDocs(q) == { d \in allowlist : d.uid = Owner(q) }

\* C26: the settings read never returns the stored API key: for every
\* allowlist document of the caller the response omits geminiApiKey and
\* carries hasGeminiApiKey, true exactly when a non-empty key is stored;
\* when the caller has no allowlist document the response is the empty
\* object with success status.
C26_KeyNeverReturned ==
    \A r \in Reqs :
      LET q == req[r] IN
      (q.path = "/get-settings" /\ q.pc = "done" /\ q.handled) =>
        /\ q.status = 200
        /\ q.body # <<>>
        /\ "geminiApiKey" \notin DOMAIN q.body[1]
        /\ \A f \in DOMAIN q.body[1] : q.body[1][f] \notin {"k1", "k2"}
        /\ OwnDocs(q) = {} => (q.body[1] = EmptyObject /\ q.hasGeminiApiKey = <<>>)
        /\ OwnDocs(q) # {} =>
             \E d \in OwnDocs(q) :
               /\ q.target = <<d.id>>
               /\ q.hasGeminiApiKey = <<d.geminiApiKey \notin {Undefined, ""}>>
               /\ \A f \in {"uid", "timezone", "themeMode", "penName"} :
                    IF d[f] = Undefined THEN f \notin DOMAIN q.body[1]
                    ELSE f \in DOMAIN q.body[1] /\ q.body[1][f] = d[f]

C26_Witness ==
    \E r \in Reqs :
      /\ req[r].responder = "getSettings"
      /\ req[r].hasGeminiApiKey = <<TRUE>>
      /\ \E d \in OwnDocs(req[r]) : d.geminiApiKey = "k1" /\ d.timezone = "tz1"
      /\ DOMAIN req[r].body[1] = {"uid", "timezone", "penName"}

\* request q went to the settings update
Updating(q) == q.handled /\ q.path = "/update-settings"

\* C27: the settings update writes only those of the four fields
\* geminiApiKey, timezone, themeMode and penName that the request carries,
\* to the caller's own allowlist document; it answers 400 without a write
\* when settings is missing or not an object, and 404 without a write when
\* the caller has no allowlist document.
C27_UpdateWritesSentFields ==
    /\ [](\A r \in Reqs :
            LET q == req[r] IN
            Updating(q) =>
              /\ q.settings.kind # "object" =>
                   (q.status = 400 /\ q.lookups = 0 /\ q.writes = 0)
              /\ q.status = 404 => (q.writes = 0 /\ OwnDocs(q) = {})
              /\ (q.settings.kind = "object" /\ q.pc = "done" /\ q.writes = 0) =>
                   q.status = 404)
    /\ [][\A r \in Reqs :
            LET q == req[r] IN
            /\ (Updating(req'[r]) /\ req'[r].status \in {400, 404}) => allowlist' = allowlist
            /\ (q.pc = "updateSettings_update" /\ req'[r].status = 200) =>
                 \E d \in OwnDocs(q) :
                   \E e \in allowlist' :
                     /\ allowlist' \ {e} = allowlist \ {d}
                     /\ e.id = d.id /\ e.uid = d.uid
                     /\ \A f \in SettingsFields :
                          e[f] = IF f \in DOMAIN q.settings.object
                                 THEN q.settings.object[f] ELSE d[f]
            /\ allowlist' # allowlist =>
                 (q.pc = "updateSettings_update" /\ req'[r].status = 200)]_vars

C27_Witness ==
    \E r \in Reqs :
      /\ req[r].responder = "updateSettings" /\ req[r].status = 200
      /\ DOMAIN req[r].settings.object = {"uid", "timezone"}
      /\ \E d \in allowlist :
           /\ d.id = req[r].target[1]
           /\ d.uid = "u1" /\ d.timezone = "tz2" /\ d.penName = "pen1"
      /\ Cardinality(allowlist) = 2

\* request q was handled by one of the admin operations
Admin(q) == q.handled /\ q.path \in {"/admin/users", "/admin/add-user"}

\* the allowlist entries that carry uid
EntriesOf(c, uid) == { e \in c : e.uid = uid }

\* C28: the admin operations are gated on the verified subject being the
\* configured admin.  For any other subject the user listing and add-user
\* answer 403 and add-user writes nothing.  For the admin, add-user answers
\* 400 without writing when newUid is missing or when its lookup finds an
\* entry with that uid, and otherwise adds exactly one entry with that uid.
C28_AdminGate ==
    /\ [](\A r \in DOMAIN req :
            Admin(req[r]) /\ req[r].user[1].uid # "u1" =>
              /\ req[r].pc = "done" /\ req[r].status = 403
              /\ req[r].writes = 0 /\ req[r].lookups = 0)
    /\ [](\A r \in DOMAIN req :
            Admin(req[r]) /\ req[r].pc = "done" =>
              /\ req[r].status \in {200, 400, 403}
              /\ req[r].status \in {400, 403} => req[r].writes = 0
              /\ req[r].path = "/admin/add-user" /\ req[r].status = 200
                   => req[r].writes = 1 /\ req[r].user[1].uid = "u1")
    /\ [][\A r \in DOMAIN req :
            req'[r] # req[r] /\ req'[r].path = "/admin/add-user" /\ req'[r].handled =>
              \* the step that answers, or issues the lookup
              /\ ~req[r].handled /\ req'[r].user[1].uid = "u1" =>
                    /\ allowlist' = allowlist
                    /\ IF req[r].newUid \in {Undefined, ""}
                       THEN req'[r].pc = "done" /\ req'[r].status = 400
                       ELSE req'[r].pc = "addUser_lookup" /\ req'[r].lookups = 1
              \* the step that takes the lookup's answer
              /\ req[r].pc = "addUser_lookup" =>
                    /\ allowlist' = allowlist
                    /\ IF EntriesOf(allowlist, req[r].newUid) # {}
                       THEN req'[r].pc = "done" /\ req'[r].status = 400
                       ELSE req'[r].pc = "addUser_add" /\ req'[r].writes = 1
              \* the step in which the write lands
              /\ req[r].pc = "addUser_add" =>
                    /\ req'[r].pc = "done" /\ req'[r].status = 200
                    /\ allowlist \subseteq allowlist'
                    /\ Cardinality(allowlist' \ allowlist) = 1
                    /\ \A e \in allowlist' \ allowlist : e.uid = req[r].newUid]_vars
    /\ [][allowlist' # allowlist =>
            \E r \in DOMAIN req : req[r].pc = "addUser_add" /\ req'[r].pc = "done"]_vars

\* a non-admin was refused by add-user while the admin's add-user added its
\* entry, and the admin was refused a uid that is there
C28_Witness ==
    \E r \in DOMAIN req, s \in DOMAIN req :
      /\ req[r].pc = "done" /\ req[r].responder = "addUser" /\ req[r].status = 403
      /\ req[r].user[1].uid # "u1" /\ req[r].newUid = "u2"
      /\ req[s].pc = "done" /\ req[s].responder = "addUser" /\ req[s].status = 400
      /\ req[s].newUid = "u2" /\ EntriesOf(allowlist, "u2") # {}
      /\ \E e \in allowlist : e.id = "d2" /\ e.uid = "u2"

\* C29: the uid is a unique key of the allowlist collection: after any
\* sequence and any interleaving of admin add-user requests the collection
\* holds at most one entry per uid.
C29_UniqueUid ==
    \A uid \in Subjects : Cardinality(EntriesOf(allowlist, uid)) <= 1

----------------------------------------------------------------------------
(* The allowlist gate and the time of its decision *)

\* C31: the allowlist decision of a request is taken against the set that
\* is current when token verification completes, not the set that was
\* current when the verifier was called: a snapshot delivered while the
\* call is pending determines the outcome, and a snapshot delivered after
\* the check has passed does not take the request's handler away.
C31_DecisionAtCompletion ==
    /\ [][\A r \in Reqs :
            (req[r].pc = "auth_verify" /\ req'[r] # req[r] /\ req'[r].decoded.verdict = "ok") =>
              /\ req'[r].seen = <<allowedUserIds>>
              /\ IF allowedUserIds # {} /\ req'[r].decoded.uid \notin allowedUserIds
                 THEN req'[r].status = 403 /\ req'[r].pc = "done" /\ req'[r].nextCalls = 0
                 ELSE req'[r].status = 0 /\ req'[r].pc = "route" /\ req'[r].nextCalls = 1]_vars
    /\ [][allowedUserIds' # allowedUserIds => req' = req]_vars
    /\ [][\A r \in Reqs :
            (req[r].pc = "route" /\ req[r].path = "/getPoem" /\ req'[r] # req[r]) =>
              req'[r].handled /\ req'[r].status # 403]_vars

\* the subject was not on the non-empty set when the verifier was called, a
\* snapshot delivered during the call let it pass, and another one delivered
\* before the handler ran has taken it off the set again
C31_Witness ==
    \E r \in Reqs :
      /\ req[r].pc = "route" /\ req[r].path = "/getPoem"
      /\ req[r].decoded.uid = "u1"
      /\ req[r].onEntry = <<{"u2"}>>
      /\ req[r].seen = <<{"u1", "u2"}>>
      /\ allowedUserIds = {"u2"}

\* authenticate has returned for request q
Returned(q) == q.pc \notin {"idle", "auth", "auth_verify"}

\* C32: every request entering authenticate reaches exactly one terminal
\* outcome: next() is called once and authenticate sends nothing, or one
\* 401/403 response is sent and next() is never called; req.user is set on
\* exactly the runs in which authenticate's token verification succeeded,
\* those that end in 403 included.
C32_OneOutcome ==
    /\ [](\A r \in Reqs :
            LET q == req[r] IN
            /\ q.nextCalls <= 1
            /\ ~Returned(q) => q.nextCalls = 0 /\ q.responses = 0
            /\ Returned(q) =>
                 \/ /\ q.nextCalls = 1
                    /\ q.responder # "authenticate"
                    /\ q.pc = "route" => q.responses = 0 /\ q.status = 0
                 \/ /\ q.nextCalls = 0
                    /\ q.responder = "authenticate"
                    /\ q.responses = 1
                    /\ q.status \in {401, 403}
                    /\ q.pc = "done" /\ ~q.handled
            /\ Returned(q) =>
                 (q.user # <<>> <=>
                    (q.path \notin BypassList /\ q.decoded.verdict = "ok"))
            /\ q.user # <<>> => q.user[1].uid = q.decoded.uid)
    /\ \A r \in Reqs : (req[r].pc = "auth") ~> Returned(req[r])

\* a run that ends in 403 with req.user set, the verifier having accepted
\* the token
C32_Witness ==
    \E r \in Reqs :
      /\ req[r].pc = "done" /\ req[r].status = 403
      /\ req[r].responder = "authenticate"
      /\ req[r].nextCalls = 0
      /\ req[r].user = <<[uid |-> "u2", email |-> "a@x"]>>

\* the collection holds an entry for subject s
Listed(s) == \E e \in allowlist : e.uid = s

\* C33: when the admin has added subject s to the allowlist collection and
\* the subscription keeps delivering, the cache eventually contains s, and
\* from then on requests verified as s pass the allowlist gate; until that
\* snapshot is delivered, and with a non-empty cache, a request verified as
\* s is still answered 403.
C33_AdditionReachesCache ==
    /\ \A s \in Subjects : Listed(s) ~> (s \in allowedUserIds)
    /\ [][\A r \in Reqs :
            (/\ req[r].pc = "auth_verify" /\ req'[r] # req[r]
             /\ req'[r].decoded.verdict = "ok"
             /\ Listed(req'[r].decoded.uid)) =>
               IF req'[r].decoded.uid \in allowedUserIds
               THEN req'[r].pc = "route" /\ req'[r].nextCalls = 1 /\ req'[r].status = 0
               ELSE allowedUserIds # {} =>
                      /\ req'[r].pc = "done" /\ req'[r].status = 403
                      /\ req'[r].responder = "authenticate"]_vars
    /\ [][\A s \in Subjects :
            (s \notin allowedUserIds /\ s \in allowedUserIds') =>
              Listed(s) /\ lastSnapshot' = <<allowlist>>]_vars

\* u2 was added by the admin, was refused while the cache held the admin
\* only, and the snapshot with u2 has been delivered since
C33_Witness ==
    /\ \E e \in allowlist : e.uid = "u2" /\ e.id = "d2"
    /\ allowedUserIds = {"u1", "u2"}
    /\ \E r \in Reqs :
         /\ req[r].pc = "done" /\ req[r].status = 403
         /\ req[r].decoded.uid = "u2"
         /\ req[r].seen = <<{"u1"}>>

----------------------------------------------------------------------------
(* Delete against a concurrent favorite-toggle *)

\* no stored item has this id
Gone(coll, id) == \A i \in DOMAIN coll : coll[i].id # id

\* the owner's delete of request q has taken effect
Deleted(q) == q.responder = "deletePoem" /\ q.status = 200 /\ q.deletes = 1

\* C34: once a delete by the owner has taken effect the item stays absent
\* under every interleaving with a concurrent favorite-toggle of the same
\* item: a toggle that read the item before the delete and writes after it
\* does not recreate the item and ends in an error response, not in success.
C34_DeleteWins ==
    /\ [](\A d \in Racers : Deleted(req[d]) => Gone(poems, req[d].id))
    /\ [][\A t \in Racers :
            (req[t].pc = "toggleFavorite_update" /\ req'[t] # req[t]) =>
              /\ \A j \in DOMAIN poems' : \E i \in DOMAIN poems : poems[i].id = poems'[j].id
              /\ Gone(poems, req[t].id) =>
                    /\ poems' = poems
                    /\ req'[t].pc = "done"
                    /\ req'[t].status = 500
                    /\ req'[t].isFavorite = <<>>]_vars

\* the toggle had read the item, the owner's delete took effect, and the
\* toggle's write came after it
C34_Witness ==
    \E d \in Racers, t \in Racers :
      /\ Deleted(req[d])
      /\ req[t].responder = "toggleFavorite" /\ req[t].id = req[d].id
      /\ req[t].poemData # <<>> /\ req[t].updates = 1
      /\ req[t].status = 500
      /\ Gone(poems, req[d].id)

----------------------------------------------------------------------------
(* The generation flow *)

\* a document of the allowlist collection names subject u and holds a key
HoldsKey(u) == \E d \in allowlist : d.uid = u /\ d.geminiApiKey \notin {Undefined, ""}

\* the subject of request q was resolved by the token path or by the
\* parameter path
Resolved(q) ==
    /\ q.userId \notin {Undefined, ""}
    /\ \/ q.tier = "token" /\ q.decoded.verdict = "ok" /\ q.userId = q.decoded.uid
       \/ q.tier = "param" /\ q.decoded.verdict # "ok" /\ q.userId = q.userid

TokenVerified(q) ==
    DualAuth(q) /\ q.image /\ q.decoded.verdict = "ok" /\ q.pc # "gen_verify"

\* C36: on the dual-auth route a verified token takes precedence over the
\* userid parameter: also when both are sent and name different subjects,
\* the resolved subject is the token's, the parameter is not taken as the
\* subject and is not tested against the allowlist.
C36_TokenPrecedence ==
    \A r \in Reqs :
      LET q == req[r] IN
      TokenVerified(q) =>
        /\ q.userId = q.decoded.uid
        /\ q.tier = "token"
        /\ q.cacheReads = 0 /\ q.seen = <<>>
        /\ q.status # 403
        /\ q.lookups = 1

\* token and parameter name different subjects, the parameter's is not on
\* the non-empty cache, and the request is through to the generative call
C36_Witness ==
    \E r \in Reqs :
      /\ TokenVerified(req[r])
      /\ req[r].decoded.uid = "u1" /\ req[r].userid = "u2"
      /\ allowedUserIds = {"u1"}
      /\ req[r].pc = "gen_generate"

\* the items of coll2 whose id coll1 does not hold
Created(coll1, coll2) ==
    { y \in DocsOf(coll2) : \A x \in DocsOf(coll1) : x.id # y.id }

\* C37: every item written by the generation flow has as userId the subject
\* resolved by that request's authentication (the token's subject on the
\* token path, the userid parameter on the parameter path) and isFavorite
\* false; no generation request creates an item of another subject than the
\* one it authenticated as.
C37_WrittenForResolvedSubject ==
    [][\A y \in Created(poems, poems') :
         \E r \in Reqs :
           LET q == req[r] IN
           /\ q.pc = "gen_save" /\ req'[r].pc = "done"
           /\ y.isFavorite = FALSE
           /\ y.userId \notin {Undefined, ""}
           /\ q.tier \in {"token", "param"}
           /\ q.tier = "token" => q.decoded.verdict = "ok" /\ y.userId = q.decoded.uid
           /\ q.tier = "param" => q.decoded.verdict # "ok" /\ y.userId = q.userid
       ]_vars

\* a request on the token path that also sent the userid of another subject
\* has written its poem, which belongs to the token's subject
C37_Witness ==
    \E r \in Reqs :
      /\ req[r].path = "/generate-poem" /\ req[r].pc = "done"
      /\ req[r].poemWrites = 1
      /\ req[r].tier = "token" /\ req[r].decoded.uid = "u1" /\ req[r].userid = "u2"
      /\ Len(poems) = 1 /\ poems[1].userId = "u1" /\ ~poems[1].isFavorite

----------------------------------------------------------------------------
(* Navigation at adjacent indices *)

\* requests a and b were answered by getPoem for the same subject and the
\* same filters, b at the index after a's
Adjacent(a, b) ==
    /\ req[a].responder = "getPoem" /\ req[a].status = 200
    /\ req[b].responder = "getPoem" /\ req[b].status = 200
    /\ req[a].user = req[b].user
    /\ req[a].favoritesOnly = req[b].favoritesOnly
    /\ req[a].sortByDate = req[b].sortByDate
    /\ \E i \in 0..MaxIndex :
         req[a].index = <<Digits[i + 1]>> /\ req[b].index = <<Digits[i + 2]>>

\* the index a was asked for
AskedIndex(a) == CHOOSE i \in 0..MaxIndex : req[a].index = <<Digits[i + 1]>>

\* C38: over an unchanged collection navigation is consistent across
\* adjacent indices: the previous item returned at index i is the current
\* item returned at index i+1, with the same index annotation i+1, and the
\* next item returned at index i+1 is the current item returned at index i.
C38_AdjacentIndices ==
    \A a \in Racers, b \in Racers :
      Adjacent(a, b) =>
        /\ req[a].previousPoem = req[b].currentPoem
        /\ req[b].nextPoem = req[a].currentPoem
        /\ req[b].currentPoem # <<>> => req[b].currentPoem[1].index = AskedIndex(a) + 1
        /\ req[a].currentPoem # <<>> => req[a].currentPoem[1].index = AskedIndex(a)

\* index 1 and index 2 over three poems of the caller: the two answers
\* overlap in two items, and the second one is at the end of the collection
C38_Witness ==
    \E a \in Racers, b \in Racers :
      /\ Adjacent(a, b)
      /\ req[a].index = <<"1">>
      /\ req[a].nextPoem # <<>> /\ req[a].currentPoem # <<>> /\ req[a].previousPoem # <<>>
      /\ req[b].nextPoem # <<>> /\ req[b].currentPoem # <<>> /\ req[b].previousPoem = <<>>
      /\ req[a].currentPoem[1].id # req[b].currentPoem[1].id

----------------------------------------------------------------------------
(* What the authenticated readers hand out *)

\* the items in the answer of request q
AnswerItems(q) ==
    { q.currentPoem[k] : k \in DOMAIN q.currentPoem }
      \cup { q.nextPoem[k] : k \in DOMAIN q.nextPoem }
      \cup { q.previousPoem[k] : k \in DOMAIN q.previousPoem }
      \cup { q.docs[k] : k \in DOMAIN q.docs }

----------------------------------------------------------------------------
(* The allowlist under the operations open to every subject *)

\* the entries of a collection, as the pairs of document id and uid
Membership(coll) == { <<d.id, d.uid>> : d \in coll }

\* C40: no sequence of non-admin operations (settings update, pinned-item
\* update, favorite-toggle, delete, generate) changes the subject
\* identifiers the allowlist collection holds: they never write the uid of
\* an entry and never add or remove an entry, so the set a snapshot of the
\* collection installs in the cache stays what it is.
C40_AllowlistFrame ==
    [][/\ Membership(allowlist') = Membership(allowlist)
       /\ { d.uid : d \in allowlist' } = { d.uid : d \in allowlist }]_vars

\* a settings update that sent a uid and a pinned-item update have both
\* been written to the caller's entry, and a poem was generated
C40_Witness ==
    /\ \E d \in allowlist :
         d.uid = "u1" /\ d.penName = "pen2" /\ d.webDisplayPoem = "p1"
    /\ Len(poems) > 0
    /\ \E r \in Reqs :
         /\ req[r].responder = "updateSettings" /\ req[r].status = 200
         /\ "uid" \in DOMAIN req[r].settings.object

============================================================================
